---- MODULE Spec2Model ----
(***************************************************************************)
(* A model of the tool-protocol engine of the Ollama MCP client:           *)
(*   - the streaming orchestrator ToolIntegratedLLMClient.chat_stream      *)
(*     (src/ollama_mcp_client/core/llm_client.py),                         *)
(*   - the modular MCP package: ServerManager, ToolDiscovery, ToolExecutor *)
(*     and the MCPTools facade (src/ollama_mcp_client/mcp/),               *)
(*   - the namespacing of the monolithic client (src/client.py).           *)
(* Each part has its own specification over its own variables; the         *)
(* variables of the other parts stay at their initial values.              *)
(***************************************************************************)
EXTENDS Integers, Sequences, FiniteSets, TLC

VARIABLES
    \* ---- ToolIntegratedLLMClient.chat_stream ----
    st,                \* position of the chat_stream generator
    request,           \* the caller's arguments: model, message, system_prompt
    content_received,  \* llm_client.py:160
    accumulated_text,  \* llm_client.py:159
    yielded,           \* the chunks yielded to the caller, in order
    backend_log,       \* the requests sent to llm_client (chat_stream and chat)
    chat_returns,      \* what each call of self.chat ended with, in order
    delivered,         \* number of chunks the backend stream has delivered
    stream_in,         \* the chunks the backend stream has delivered, in order
    saw_terminal,      \* the backend delivered a chunk with done = true
    saw_fault,         \* the backend stream raised
    \* ---- the modular MCP package ----
    config,            \* ConfigManager.get_servers_config(): the servers, in order
    servers,           \* ServerManager.servers: name -> registry entry
    reg_order,         \* iteration order of the registry (insertion order)
    available_tools,   \* MCPTools.available_tools
    procs,             \* per process: its mode and what went over its pipes
    running,           \* the task that holds the event loop
    task,              \* per asyncio task: operation, position and locals
    ops,               \* operations started so far, per kind
    \* ---- the monolithic client (client.py) ----
    cl_config,         \* ConfigManager.get_servers_config(): the server names, in order
    cl_servers,        \* ServerManager.servers / MCPTools.servers, in insertion order
    cl_available_tools,\* MCPTools.available_tools
    cl_call,           \* the last MCPTools.call_tool: its name and what it resolved to
    cl_sub,            \* one subprocess operation of client.py: what it spawned and gave
    \* ---- ToolIntegratedLLMClient: execution of tool calls ----
    mcp_tools,         \* self.mcp_tools: attached or not, and what its tools do
    orch,              \* the call observed: its input, the tools it called, its outcome
    \* ---- the modular package, one step per operation ----
    fc_config,         \* ConfigManager.get_servers_config(): the servers, in order
    fc_servers,        \* ServerManager.servers, in insertion order
    fc_spawned,        \* the Popen calls made: server name and the child's environment
    fc_available_tools,\* MCPTools.available_tools
    fc_pc,             \* "constructed", then "initialized" by MCPTools.initialize_servers
    fc_out,            \* what get_tools_description returned, when it was called
    remote             \* one call of ToolExecutor._call_remote_tool

streamVars == <<st, request, content_received, accumulated_text, yielded,
                backend_log, chat_returns, delivered, stream_in, saw_terminal,
                saw_fault>>

mcpVars == <<config, servers, reg_order, available_tools, procs, running, task, ops>>

clVars == <<cl_config, cl_servers, cl_available_tools, cl_call, cl_sub>>

orchVars == <<mcp_tools, orch>>

facadeVars == <<fc_config, fc_servers, fc_spawned, fc_available_tools, fc_pc, fc_out, remote>>

vars == <<streamVars, mcpVars, clVars, orchVars, facadeVars>>

(***************************************************************************)
(* Bounds of the model.                                                    *)
(***************************************************************************)
\* chunks one backend stream delivers before it must end
MaxChunks == 3

(***************************************************************************)
(* Python values that matter to the orchestrator.                          *)
(***************************************************************************)
None == [t |-> "none"]
PyStr(s) == [t |-> "str", v |-> s]

\* MCPTools.get_tools_description(): a non-empty text (tools.py:39-77); its
\* content is immaterial to the stream orchestrator.
tools_desc == <<"DESC">>

\* str.strip() on a text made of tokens: leading and trailing blank tokens go.
RECURSIVE LStrip(_)
LStrip(s) == IF s # <<>> /\ Head(s) = "\n\n" THEN LStrip(Tail(s)) ELSE s
RECURSIVE RStrip(_)
RStrip(s) == IF s # <<>> /\ s[Len(s)] = "\n\n" THEN RStrip(SubSeq(s, 1, Len(s) - 1)) ELSE s
Strip(s) == RStrip(LStrip(s))

\* full_system_prompt = f"{system_prompt or ''}\n\n{tools_desc}".strip()
FullSystemPrompt(sp) ==
    Strip((IF sp = None THEN <<>> ELSE <<sp.v>>) \o <<"\n\n">> \o tools_desc)

(***************************************************************************)
(* The tool-server wire protocol as the modular package reads it.  A line  *)
(* read from a process's stdout is end of file (""), a text that is not    *)
(* JSON, or a JSON object with optional id, result and error members.      *)
(***************************************************************************)
Absent == [t |-> "absent", v |-> <<>>]
JNull  == [t |-> "null",   v |-> <<>>]
JStr(s) == [t |-> "str",   v |-> s]
JNum   == [t |-> "num",    v |-> <<>>]
\* a list of items; a dict with one member of interest (content, tools, text,
\* name or message), Absent when the dict lacks it
JList(items) == [t |-> "list", v |-> items]
JDict(member) == [t |-> "dict", v |-> member]
IsDict(x) == x.t = "dict"

Line(k, id, result, error) == [k |-> k, id |-> id, result |-> result, error |-> error]
EOF     == Line("eof", 0, Absent, Absent)
BadJson == Line("bad", 0, Absent, Absent)
Obj(id, result, error) == Line("obj", id, result, error)

\* `key in response` for "result" and "error": "T", "F" or "raise"
HasResult(l) ==
    CASE l.k = "obj" -> IF l.result # Absent THEN "T" ELSE "F"
      [] OTHER       -> "raise"
HasError(l) ==
    CASE l.k = "obj" -> IF l.error # Absent THEN "T" ELSE "F"
      [] OTHER       -> "raise"

\* what the wire log keeps of a line that was read
LineClass(l) ==
    CASE l.k # "obj" -> l.k
      [] l.result # Absent /\ l.error # Absent -> "both"
      [] l.result # Absent -> "result"
      [] l.error # Absent  -> "error"
      [] OTHER -> "neither"

\* ids of the requests (tool_discovery.py:108, 146; tool_executor.py:86)
InitializeId == 1
ToolsListId  == 2
ToolsCallId  == 2

\* answers to initialize
ErrorMember == JDict(JStr(<<"bad">>))
InitLines ==
    { EOF, BadJson,
      Obj(InitializeId, JDict(Absent), Absent),
      Obj(InitializeId, Absent, ErrorMember),
      Obj(InitializeId, JDict(Absent), ErrorMember),
      Obj(InitializeId, Absent, Absent) }

\* answers to tools/list: result {tools: [{name: ...}, ...]}
ToolData(name) == JDict(JStr(name))
ToolsResult(items) == JDict(JList(items))
ListLines ==
    { EOF,
      Obj(ToolsListId, ToolsResult(<<ToolData(<<"foo">>)>>), Absent),
      Obj(ToolsListId, ToolsResult(<<ToolData(<<"foo">>),
                                     ToolData(<<"local_server", "_", "x">>)>>), Absent),
      Obj(ToolsListId, ToolsResult(<<ToolData(<<"foo">>), JNum>>), Absent),
      Obj(ToolsListId, Absent, ErrorMember) }

\* answers to tools/call: result {content: [{text: ...}]}, or anything else
ContentResult(items) == JDict(JList(items))
TextItem(text) == JDict(text)
CallLines ==
    { EOF, BadJson,
      Obj(ToolsCallId, ContentResult(<<TextItem(JStr(<<"42">>))>>), Absent),
      Obj(InitializeId, ContentResult(<<TextItem(JStr(<<"stale">>))>>), Absent),
      Obj(ToolsCallId, ContentResult(<<TextItem(JNull)>>), Absent),
      Obj(ToolsCallId, ContentResult(<<TextItem(Absent)>>), Absent),
      Obj(ToolsCallId, JDict(Absent), Absent),
      Obj(ToolsCallId, JNum, Absent),
      Obj(ToolsCallId, Absent, ErrorMember),
      Obj(ToolsCallId, ContentResult(<<TextItem(JStr(<<"42">>))>>), ErrorMember),
      Obj(ToolsCallId, Absent, Absent) }

(***************************************************************************)
(* Texts are sequences of tokens.  Failure() is a text that starts with    *)
(* the cross mark the package puts in front of its failure results.        *)
(***************************************************************************)
Cross == "[X]"
Failure(msg) == PyStr(<<Cross, msg>>)
IsStr(r) == r.t = "str"
IsFailure(r) == IsStr(r) /\ r.v # <<>> /\ Head(r.v) = Cross

\* the literal prefix of tool_discovery.py:161 and tool_executor.py:80
LocalServerPrefix == <<"local_server", "_">>
\* the literal owner of tool_discovery.py:162
LocalServerName == "local_server"

\* str.replace("local_server_", ""): every occurrence goes, left to right
RECURSIVE StripPrefix(_)
StripPrefix(name) ==
    IF Len(name) < 2 THEN name
    ELSE IF SubSeq(name, 1, 2) = LocalServerPrefix
         THEN StripPrefix(SubSeq(name, 3, Len(name)))
         ELSE <<Head(name)>> \o StripPrefix(Tail(name))

(***************************************************************************)
(* ToolDiscovery._discover_subprocess_tools, lines 158-167: the tool_info  *)
(* entries built from the tools member of a tools/list result.  The loop   *)
(* appends as it goes, so an element that is no object (tool_data.get      *)
(* raises) leaves the entries built before it.                             *)
(***************************************************************************)
ToolInfo(name, server_name, process) ==
    [name |-> name, server_name |-> server_name, process |-> process]

RECURSIVE BuildTools(_, _)
BuildTools(items, process) ==
    IF items = <<>> \/ ~IsDict(Head(items)) THEN <<>>
    ELSE LET data == Head(items)
             local == IF data.v = Absent THEN <<"unknown">> ELSE data.v.v
         IN <<ToolInfo(LocalServerPrefix \o local, LocalServerName, process)>>
                \o BuildTools(Tail(items), process)

\* lines 153-167: the tools one server yields for the line read after tools/list
ToolsOfListLine(l, process) ==
    IF l.k = "obj" /\ l.result # Absent /\ IsDict(l.result) /\ l.result.v # Absent
    THEN BuildTools(l.result.v.v, process)
    ELSE <<>>

(***************************************************************************)
(* ToolExecutor._call_subprocess_tool, lines 97-115: the value returned    *)
(* for the line read after tools/call.                                     *)
(***************************************************************************)
ErrorCalling == Failure(" Error calling subprocess tool: ")
\* content[0].get("text", "No result"): the text member as Python sees it
TextValue(x) ==
    CASE x = Absent  -> PyStr(<<"No result">>)
      [] x = JNull   -> None
      [] OTHER       -> PyStr(x.v)

\* the body of the try, lines 97-113: a returned value or a raised exception
Raise == [exc |-> TRUE, value |-> None]
Return(v) == [exc |-> FALSE, value |-> v]
ReadResponse(l) ==
    CASE l.k = "eof" -> Return(Failure(" No response from subprocess"))
      [] l.k = "bad" -> Raise
      [] HasResult(l) = "raise" -> Raise
      [] HasResult(l) = "T" ->
            IF l.k # "obj" \/ ~IsDict(l.result) THEN Raise
            ELSE LET content == l.result.v IN
                 IF content = Absent \/ content.v = <<>>
                 THEN Return(PyStr(<<"No content in result">>))
                 ELSE IF content.t = "list" /\ IsDict(content.v[1])
                      THEN Return(TextValue(content.v[1].v))
                      ELSE Raise
      [] HasError(l) = "T" ->
            IF IsDict(l.error)
            THEN Return(PyStr(<<Cross, " Tool error: ">> \o
                       (IF l.error.v = Absent THEN <<"Unknown error">> ELSE l.error.v.v)))
            ELSE Raise
      [] OTHER -> Return(Failure(" Invalid response format"))

\* lines 114-115: except Exception
CallResult(l) == IF ReadResponse(l).exc THEN ErrorCalling ELSE ReadResponse(l).value

(***************************************************************************)
(* The modular package as a state machine.  Operations run as asyncio      *)
(* tasks: a task holds the event loop from the moment it is resumed until  *)
(* its next suspension (the sleep of tool_discovery.py:140) or its end;    *)
(* the pipe writes and reads are synchronous calls and do not suspend.     *)
(***************************************************************************)
\* calls of MCPTools.call_tool started in one run
MaxCalls == 1
\* calls of ToolDiscovery.discover_all_tools besides the one of initialize_servers
MaxRediscover == 1
\* operations started in one run after initialize_servers, of either kind
MaxOps == 2

Tasks == {"t1", "t2"}
\* the task that sets the tools up at start-up (ui/interface.py:151)
MainTask == "t1"
NoTask == "none"
ServerNames == {"a", "local_server"}
\* a configured subprocess server: its name, and whether its command can be spawned
ServerConfig(name, good) == [name |-> name, good |-> good]
\* the configurations: two subprocess servers, in the order of the mapping
Configs ==
    { <<ServerConfig(x, gx), ServerConfig(y, gy)>> :
        x \in ServerNames, y \in ServerNames, gx \in BOOLEAN, gy \in BOOLEAN }
    \ { <<ServerConfig(x, gx), ServerConfig(x, gy)>> :
        x \in ServerNames, gx \in BOOLEAN, gy \in BOOLEAN }

NoProcess == "none"
NoServer == [type |-> "none", process |-> NoProcess]
\* server_manager.py:59-63; the process is named after the server it was spawned for
Entry(n) == [type |-> "subprocess", process |-> n]
\* ServerManager.get_server (server_manager.py:101-103)
GetServer(n) == IF n \in ServerNames THEN servers[n] ELSE NoServer

\* the tool names MCPTools.call_tool is called with
Namespaced(server, local) == <<server, "_">> \o local
CallNames ==
    { Namespaced("local_server", <<"foo">>),
      Namespaced("local_server", <<"local_server", "_", "x">>),
      Namespaced("a", <<"foo">>) }

\* what a task's trace keeps of a message written (a notification has no id: 0)
\* and of a line read
Out(method, id) == [dir |-> "out", what |-> method, id |-> id]
In(l) == [dir |-> "in", what |-> LineClass(l), id |-> l.id, line |-> l]

IdleTask == [op |-> "none", pc |-> "idle", i |-> 0, all_tools |-> <<>>,
             arg |-> <<>>, proc |-> NoProcess, trace |-> <<>>, result |-> None]

\* a process nobody spawned
\* `listed`, `shaken` and `ids` record what happened on the pipes: the last
\* line the process gave after tools/list, whether a handshake (initialize
\* answered with a result, then notifications/initialized) was ever completed
\* on it, and the ids of the requests written to it so far
NoProc == [mode |-> "none", pending |-> {}, listed |-> EOF, shaken |-> FALSE, ids |-> {}]

McpIdle ==
    /\ config = <<>>
    /\ servers = [n \in ServerNames |-> NoServer]
    /\ reg_order = <<>>
    /\ available_tools = <<>>
    /\ procs = [n \in ServerNames |-> NoProc]
    /\ running = NoTask
    /\ task = [t \in Tasks |-> IdleTask]
    /\ ops = [init |-> 0, disc |-> 0, call |-> 0]

\* the monolithic client before it is constructed
NoCall == [name |-> <<>>, intended |-> 0, resolved |-> 0]
\* no subprocess operation of client.py was run; Unread stands for a line
\* the operation did not get to read
Unread == Line("unread", 0, Absent, Absent)
NoSub == [op |-> "none", server_info |-> [type |-> "none"], spawned |-> <<>>,
          init_line |-> Unread, line |-> Unread,
          out |-> [ok |-> TRUE, value |-> None], modular |-> None]
ClIdle ==
    /\ cl_config = <<>>
    /\ cl_servers = <<>>
    /\ cl_available_tools = <<>>
    /\ cl_call = NoCall
    /\ cl_sub = NoSub

\* the tool names that occur in tool calls; the second holds a backslash
ToolNames == {"x", "y\\d"}
\* what a tool does when called: returns a text, returns a text that holds a
\* backslash (a Windows path, a regular expression), or raises
Outcomes == {"ok", "esc", "raise", "nth"}
\* no tool call execution observed, no tools attached
NoTools == [present |-> FALSE, env |-> [n \in ToolNames |-> "ok"]]
NoRun == [op |-> "none", segs |-> <<>>, text |-> <<>>, has_tool_calls |-> FALSE,
          tool_calls |-> <<>>, calls |-> <<>>, results |-> <<>>,
          out |-> [exc |-> FALSE, v |-> <<>>]]
OrchIdle ==
    /\ mcp_tools = NoTools
    /\ orch = NoRun

\* the package before it is constructed, no remote call made
NoOut == [op |-> "none", v |-> <<>>]
NoRemote == [pc |-> "none", base_url |-> <<>>, tool_name |-> <<>>, payload |-> <<>>,
             http |-> [k |-> "none", status |-> 0, body |-> "none"],
             result |-> [exc |-> FALSE, value |-> None]]
FacadeIdle ==
    /\ fc_config = <<>>
    /\ fc_servers = <<>>
    /\ fc_spawned = <<>>
    /\ fc_available_tools = <<>>
    /\ fc_pc = "constructed"
    /\ fc_out = NoOut
    /\ remote = NoRemote

\* the orchestrator at rest
StreamFrozen ==
    /\ st = "Idle"
    /\ request = [model |-> "m1", message |-> "hi", system_prompt |-> None]
    /\ content_received = FALSE
    /\ accumulated_text = <<>>
    /\ yielded = <<>>
    /\ backend_log = <<>>
    /\ chat_returns = <<>>
    /\ delivered = 0
    /\ stream_in = <<>>
    /\ saw_terminal = FALSE
    /\ saw_fault = FALSE

\* the state after MCPTools.__init__ (tools.py:13-18)
McpInit ==
    /\ config \in Configs
    /\ servers = [n \in ServerNames |-> NoServer]
    /\ reg_order = <<>>
    /\ available_tools = <<>>
    /\ procs = [n \in ServerNames |-> NoProc]
    /\ running = NoTask
    /\ task = [t \in Tasks |-> IdleTask]
    /\ ops = [init |-> 0, disc |-> 0, call |-> 0]

\* an operation starts when no task holds the event loop; which task object
\* runs it is immaterial, so it is the first one that is free
Free(t) == task[t].pc \in {"idle", "done"}
CanStart(t) ==
    /\ running = NoTask
    /\ Free(t)
    /\ t # MainTask => ~Free(MainTask)
Holds(t) == running = t

\* a variant in which a task gives the event loop up while it waits for the line
AwaitedRead(t) == NoTask

\* stdin.write + flush and stdout.readline are plain synchronous calls with no
\* await between them (tool_discovery.py:120-124, 150-153; tool_executor.py:
\* 94-98): the task that wrote a request keeps the event loop until it has read
LoopOwnerUntilRead(t) == t

\* the names of the tools a server declares in its answer to tools/list
Declared(l) ==
    IF l.k = "obj" /\ l.result # Absent /\ IsDict(l.result) /\ l.result.v # Absent
    THEN { l.result.v.v[i].v.v :
             i \in { j \in 1..Len(l.result.v.v) : IsDict(l.result.v.v[j]) } }
    ELSE {}
\* the tools/list answer has an entry that is no object
Malformed(l) ==
    /\ l.k = "obj" /\ l.result # Absent /\ IsDict(l.result) /\ l.result.v # Absent
    /\ \E j \in 1..Len(l.result.v.v) : ~IsDict(l.result.v.v[j])

\* a request was written to p by t; a line was read from p by t
Requested(p, t) == [procs EXCEPT ![p].pending = @ \cup {t}]
Answered(p, t) == [procs EXCEPT ![p].pending = @ \ {t}]

\* the process of the server discovery is at (tool_discovery.py:100)
ProcessAt(t) == servers[reg_order[task[t].i]].process

\* discover_all_tools, lines 21-29: one server is through with `tools`; go to the
\* next one, or return.  MCPTools.initialize_servers (tools.py:23) stores the
\* returned list.
NextServer(t, tools) ==
    LET all == task[t].all_tools \o tools
        last == task[t].i >= Len(reg_order)
    IN /\ task' = [task EXCEPT ![t].all_tools = all,
                               ![t].i = IF last THEN 0 ELSE @ + 1,
                               ![t].trace = <<>>,
                               ![t].pc = IF last THEN "done" ELSE "w_init"]
       /\ running' = IF last THEN NoTask ELSE t
       /\ available_tools' = IF last /\ task[t].op = "init" THEN all ELSE available_tools

\* discover_all_tools, lines 16-21: start the loop over the registry `order`
BeginDiscovery(t, op, order) ==
    IF order = <<>>
    THEN /\ task' = [task EXCEPT ![t] = [IdleTask EXCEPT !.op = op, !.pc = "done"]]
         /\ running' = NoTask
         /\ available_tools' = IF op = "init" THEN <<>> ELSE available_tools
    ELSE /\ task' = [task EXCEPT ![t] = [IdleTask EXCEPT !.op = op, !.pc = "w_init", !.i = 1]]
         /\ running' = t
         /\ UNCHANGED available_tools

\* a variant in which the first Popen failure ends the loop over the servers
RECURSIVE SpawnedUntilFailure(_)
SpawnedUntilFailure(cfg) ==
    IF cfg = <<>> \/ ~Head(cfg).good THEN <<>>
    ELSE <<Head(cfg).name>> \o SpawnedUntilFailure(Tail(cfg))

\* ServerManager.initialize_servers (server_manager.py:17-22) with the
\* try/except of _initialize_server (33-67): the names of the servers whose
\* Popen succeeds, in configuration order; a failing one is reported and skipped
RECURSIVE Spawned(_)
Spawned(cfg) ==
    IF cfg = <<>> THEN <<>>
    ELSE (IF Head(cfg).good THEN <<Head(cfg).name>> ELSE <<>>) \o Spawned(Tail(cfg))

Range(q) == { q[i] : i \in 1..Len(q) }

(***************************************************************************)
(* MCPTools.initialize_servers (tools.py:20-23).  It is called once, at    *)
(* start-up (ui/interface.py:151).  Nothing suspends between the spawning  *)
(* of the servers and the start of discovery.                              *)
(***************************************************************************)
InitializeServers(t) ==
    /\ t = MainTask
    /\ CanStart(t)
    /\ ops.init = 0
    /\ ops' = [ops EXCEPT !.init = 1]
    /\ LET order == Spawned(config) IN
       /\ servers' = [n \in ServerNames |-> IF n \in Range(order) THEN Entry(n) ELSE servers[n]]
       /\ reg_order' = order
       /\ procs' = [n \in ServerNames |->
                       IF n \in Range(order) THEN [NoProc EXCEPT !.mode = "up"] ELSE procs[n]]
       /\ BeginDiscovery(t, "init", order)
    /\ UNCHANGED <<config, streamVars, clVars, orchVars, facadeVars>>

\* ToolDiscovery.discover_all_tools called again (tool_discovery.py:16-29)
DiscoverAllTools(t) ==
    /\ CanStart(t)
    /\ ops.init = 1
    /\ ops.disc < MaxRediscover
    /\ ops.disc + ops.call < MaxOps
    /\ ops' = [ops EXCEPT !.disc = @ + 1]
    /\ BeginDiscovery(t, "disc", reg_order)
    /\ UNCHANGED <<config, servers, reg_order, procs, streamVars, clVars, orchVars, facadeVars>>

(***************************************************************************)
(* ToolDiscovery._discover_subprocess_tools (tool_discovery.py:97-171),    *)
(* one step per pipe operation.  A write to a process that has exited      *)
(* raises BrokenPipeError, which the except of line 168 turns into the     *)
(* tools found so far (none).                                              *)
(***************************************************************************)
\* lines 105-121
WriteInitialize(t) ==
    /\ Holds(t)
    /\ task[t].pc = "w_init"
    /\ LET p == ProcessAt(t) IN
       IF procs[p].mode = "dead"
       THEN /\ NextServer(t, <<>>)
            /\ UNCHANGED procs
       ELSE /\ procs' = [Requested(p, t) EXCEPT ![p].ids = @ \cup {InitializeId}]
            /\ task' = [task EXCEPT ![t].pc = "r_init",
                                    ![t].trace = <<Out("initialize", InitializeId)>>]
            /\ running' = LoopOwnerUntilRead(t)
            /\ UNCHANGED available_tools
    /\ UNCHANGED <<config, servers, reg_order, ops, streamVars, clVars, orchVars, facadeVars>>

\* a process that is up can write any line; one that has exited gives end of file
CanRead(p, l) == procs[p].mode = "up" \/ (procs[p].mode = "dead" /\ l = EOF)

\* lines 124-127
ReadInitialize(t, l) ==
    /\ running = LoopOwnerUntilRead(t)
    /\ task[t].pc = "r_init"
    /\ l \in InitLines
    /\ LET p == ProcessAt(t)
           trace == Append(task[t].trace, In(l))
       IN /\ CanRead(p, l)
          /\ procs' = Answered(p, t)
          /\ IF l.k \notin {"eof", "bad"} /\ HasResult(l) = "T"
             THEN /\ task' = [task EXCEPT ![t].pc = "w_notif", ![t].trace = trace]
                  /\ running' = t
                  /\ UNCHANGED available_tools
             ELSE NextServer(t, <<>>)
    /\ UNCHANGED <<config, servers, reg_order, ops, streamVars, clVars, orchVars, facadeVars>>

\* lines 128-140: the notification, then await asyncio.sleep(0.1)
WriteInitialized(t) ==
    /\ Holds(t)
    /\ task[t].pc = "w_notif"
    /\ IF procs[ProcessAt(t)].mode = "dead"
       THEN /\ NextServer(t, <<>>)
            /\ UNCHANGED procs
       ELSE /\ task' = [task EXCEPT ![t].pc = "w_list",
                           ![t].trace = Append(@, Out("notifications/initialized", 0))]
            /\ procs' = [procs EXCEPT ![ProcessAt(t)].shaken = TRUE]
            /\ running' = NoTask
            /\ UNCHANGED available_tools
    /\ UNCHANGED <<config, servers, reg_order, ops, streamVars, clVars, orchVars, facadeVars>>

\* lines 142-151: resumed after the sleep
WriteToolsList(t) ==
    /\ running = NoTask
    /\ task[t].pc = "w_list"
    /\ LET p == ProcessAt(t) IN
       IF procs[p].mode = "dead"
       THEN /\ NextServer(t, <<>>)
            /\ UNCHANGED procs
       ELSE /\ procs' = [Requested(p, t) EXCEPT ![p].ids = @ \cup {ToolsListId}]
            /\ task' = [task EXCEPT ![t].pc = "r_list",
                           ![t].trace = Append(@, Out("tools/list", ToolsListId))]
            /\ running' = LoopOwnerUntilRead(t)
            /\ UNCHANGED available_tools
    /\ UNCHANGED <<config, servers, reg_order, ops, streamVars, clVars, orchVars, facadeVars>>

\* lines 153-171
ReadToolsList(t, l) ==
    /\ running = LoopOwnerUntilRead(t)
    /\ task[t].pc = "r_list"
    /\ l \in ListLines
    /\ LET p == ProcessAt(t) IN
       /\ CanRead(p, l)
       /\ procs' = [Answered(p, t) EXCEPT ![p].listed = l]
       /\ NextServer(t, ToolsOfListLine(l, p))
    /\ UNCHANGED <<config, servers, reg_order, ops, streamVars, clVars, orchVars, facadeVars>>

(***************************************************************************)
(* MCPTools.call_tool (tools.py:25-37), ToolExecutor.call_tool             *)
(* (tool_executor.py:15-35) and ToolExecutor._call_subprocess_tool         *)
(* (tool_executor.py:73-115).                                              *)
(***************************************************************************)
\* a variant that falls back on the first catalog entry when no name matches
LookupOrFirst(name) ==
    LET hits == { i \in 1..Len(available_tools) : available_tools[i].name = name }
    IN IF hits = {} THEN (IF available_tools = <<>> THEN 0 ELSE 1)
       ELSE CHOOSE i \in hits : \A j \in hits : i <= j

\* tools.py:28-32: the first catalog entry with that name, 0 when there is none
Lookup(name) ==
    LET hits == { i \in 1..Len(available_tools) : available_tools[i].name = name }
    IN IF hits = {} THEN 0 ELSE CHOOSE i \in hits : \A j \in hits : i <= j

\* the call ends without a line read, returning v
CallEnds(t, name, v) ==
    /\ task' = [task EXCEPT ![t] = [IdleTask EXCEPT
                    !.op = "call", !.pc = "done", !.arg = name, !.result = v]]
    /\ UNCHANGED <<running, procs>>

\* everything up to the write of tool_executor.py:94-95
CallTool(t, name) ==
    /\ CanStart(t)
    /\ ops.call < MaxCalls
    /\ ops.disc + ops.call < MaxOps
    /\ name \in CallNames
    /\ ops' = [ops EXCEPT !.call = @ + 1]
    /\ IF Lookup(name) = 0
       THEN CallEnds(t, name, PyStr(<<Cross, " Tool '">> \o name \o <<"' not found">>))
       ELSE LET tool_info == available_tools[Lookup(name)]
                server_info == GetServer(tool_info.server_name)
            IN IF server_info = NoServer
               THEN CallEnds(t, name,
                        PyStr(<<Cross, " Server '", tool_info.server_name, "' not found">>))
               ELSE IF procs[server_info.process].mode = "dead"
                    THEN CallEnds(t, name, ErrorCalling)
                    ELSE /\ procs' = [Requested(server_info.process, t) EXCEPT
                                         ![server_info.process].ids = @ \cup {ToolsCallId}]
                         /\ task' = [task EXCEPT ![t] = [IdleTask EXCEPT
                                !.op = "call", !.pc = "r_call", !.arg = name,
                                !.proc = server_info.process,
                                !.trace = <<Out(<<"tools/call">> \o StripPrefix(name),
                                                ToolsCallId)>>]]
                         /\ running' = LoopOwnerUntilRead(t)
    /\ UNCHANGED <<config, servers, reg_order, available_tools, streamVars, clVars, orchVars, facadeVars>>

\* lines 97-115
ReadCallResponse(t, l) ==
    /\ running = LoopOwnerUntilRead(t)
    /\ task[t].pc = "r_call"
    /\ l \in CallLines
    /\ CanRead(task[t].proc, l)
    /\ procs' = Answered(task[t].proc, t)
    /\ task' = [task EXCEPT ![t].pc = "done",
                            ![t].trace = Append(@, In(l)),
                            ![t].result = CallResult(l)]
    /\ running' = NoTask
    /\ UNCHANGED <<config, servers, reg_order, available_tools, ops, streamVars, clVars, orchVars, facadeVars>>

(***************************************************************************)
(* The tool server processes: one may exit at any time, and one that is    *)
(* being read from may stay silent for good.                               *)
(***************************************************************************)
ReadPcs == {"r_init", "r_list", "r_call"}
\* the process task t is reading from
ReadingFrom(t) == IF task[t].pc = "r_call" THEN task[t].proc ELSE ProcessAt(t)

ProcessExits(p) ==
    /\ procs[p].mode \in {"up", "silent"}
    /\ procs' = [procs EXCEPT ![p].mode = "dead"]
    /\ UNCHANGED <<config, servers, reg_order, available_tools, running, task, ops, streamVars, clVars, orchVars, facadeVars>>

ProcessGoesSilent(p) ==
    /\ procs[p].mode = "up"
    /\ \E t \in Tasks : task[t].pc \in ReadPcs /\ ReadingFrom(t) = p
    /\ procs' = [procs EXCEPT ![p].mode = "silent"]
    /\ UNCHANGED <<config, servers, reg_order, available_tools, running, task, ops, streamVars, clVars, orchVars, facadeVars>>

\* the steps of task t
TaskStep(t) ==
    \/ WriteInitialize(t)
    \/ \E l \in InitLines : ReadInitialize(t, l)
    \/ WriteInitialized(t)
    \/ WriteToolsList(t)
    \/ \E l \in ListLines : ReadToolsList(t, l)
    \/ \E l \in CallLines : ReadCallResponse(t, l)

McpNext ==
    \/ \E t \in Tasks : InitializeServers(t)
    \/ \E t \in Tasks : DiscoverAllTools(t)
    \/ \E t \in Tasks, name \in CallNames : CallTool(t, name)
    \/ \E t \in Tasks : TaskStep(t)
    \/ \E p \in ServerNames : ProcessExits(p)
    \/ \E p \in ServerNames : ProcessGoesSilent(p)

InitMcp == McpInit /\ StreamFrozen /\ ClIdle /\ OrchIdle /\ FacadeIdle
SpecMcp == InitMcp /\ [][McpNext]_vars

(***************************************************************************)
(* ToolIntegratedLLMClient: execution of structured tool calls and of      *)
(* inline markers (llm_client.py:196-299).  A text is a sequence of        *)
(* tokens; the tokens "[TOOL:", ":" and "]" are the only ones that hold a  *)
(* colon or a closing bracket.                                             *)
(***************************************************************************)
MaxSegments == 3
MaxContentSegments == 1
MaxToolCalls == 2

Value(v) == [exc |-> FALSE, v |-> v]
Raised(msg) == [exc |-> TRUE, v |-> msg]

Open == "[TOOL:"
Colon == ":"
Close == "]"
Wrench == "[T] "
Prose == "a "
\* the argument texts of the markers: none, an object, broken JSON, an object
\* with a list in it
ListArgs == <<"{\"k\"", Colon, "[1", Close, "}">>
ArgTexts == { <<>>, <<"{}">>, <<"{bad">>, ListArgs }
Marker(name, args) == <<Open, name, Colon>> \o args \o <<Close>>
Segments == { <<Prose>> } \cup { Marker(n, a) : n \in ToolNames, a \in ArgTexts }
RECURSIVE SegLists(_)
SegLists(n) ==
    IF n = 0 THEN { <<>> }
    ELSE LET s == SegLists(n - 1) IN s \cup { Append(q, g) : q \in s, g \in Segments }
RECURSIVE Flatten(_)
Flatten(segs) == IF segs = <<>> THEN <<>> ELSE Head(segs) \o Flatten(Tail(segs))

\* json.loads(args_str) if args_str.strip() else {}
JsonLoads(args_str) ==
    IF args_str = <<>> THEN Value(<<"{}">>)
    ELSE IF args_str \in { <<"{}">>, ListArgs } THEN Value(args_str)
    ELSE Raised(<<"JSONDecodeError">>)

\* the first index from i on where the text holds one of the tokens, 0 if none
First(text, i, toks) ==
    LET hits == { j \in i..Len(text) : text[j] \in toks }
    IN IF hits = {} THEN 0 ELSE CHOOSE j \in hits : \A k \in hits : j <= k

\* re.findall(r'\[TOOL:([^:]+):([^\]]*)\]', text): the name runs to the first
\* colon, the arguments to the first closing bracket; matches do not overlap
RECURSIVE FindAll(_, _)
FindAll(text, i) ==
    IF i > Len(text) THEN <<>>
    ELSE LET c == First(text, i + 1, {Colon, Open})
             e == IF c = 0 THEN 0 ELSE First(text, c + 1, {Close})
         IN IF text[i] = Open /\ c > i + 1 /\ text[c] = Colon /\ e # 0
            THEN <<[tool_name |-> SubSeq(text, i + 1, c - 1),
                    args_str |-> SubSeq(text, c + 1, e - 1)]>> \o FindAll(text, e + 1)
            ELSE FindAll(text, i + 1)

\* a backslash followed by a letter that is no escape of a replacement template
HasBadEscape(s) == \E i \in 1..Len(s) : s[i] \in {"y\\d", "r\\d", "\\d"}

RECURSIVE ReplaceAll(_, _, _)
ReplaceAll(text, pat, repl) ==
    IF Len(text) < Len(pat) THEN text
    ELSE IF SubSeq(text, 1, Len(pat)) = pat
         THEN repl \o ReplaceAll(SubSeq(text, Len(pat) + 1, Len(text)), pat, repl)
         ELSE <<Head(text)>> \o ReplaceAll(Tail(text), pat, repl)

\* re.sub(tool_call_pattern, replacement, result_text): the replacement is a
\* template, and a bad escape in it raises re.error
ReSub(m, replacement, result_text) ==
    IF HasBadEscape(replacement) THEN Raised(<<"bad escape ", "\\d">>)
    ELSE Value(ReplaceAll(result_text, <<Open>> \o m.tool_name \o <<Colon>> \o m.args_str \o <<Close>>,
                          replacement))

\* await self.mcp_tools.call_tool(tool_name, arguments), the n-th call made: a
\* tool answers the same at every call, or (nth) differently at each
ToolResult(tool_name, n) ==
    IF Len(tool_name) = 1 /\ tool_name[1] \in ToolNames
    THEN CASE mcp_tools.env[tool_name[1]] = "ok"    -> Value(<<"r">>)
           [] mcp_tools.env[tool_name[1]] = "esc"   -> Value(<<"r\\d">>)
           [] mcp_tools.env[tool_name[1]] = "raise" -> Raised(<<"boom">>)
           [] mcp_tools.env[tool_name[1]] = "nth"   -> Value(<<"r">> \o [k \in 1..n |-> "#"])
    ELSE Value(<<Cross, " Tool not found">>)
Called(tool_name, arguments, via) == [tool_name |-> tool_name, arguments |-> arguments, via |-> via]

\* _process_tool_calls_async, the loop over the matches (llm_client.py:280-297)
RECURSIVE ProcessMatches(_, _, _)
ProcessMatches(matches, result_text, calls) ==
    IF matches = <<>> THEN [out |-> Value(result_text), calls |-> calls]
    ELSE LET m == Head(matches)
             arguments == JsonLoads(m.args_str)
             called == ~arguments.exc /\ mcp_tools.present
             tool_result == ToolResult(m.tool_name, Len(calls) + 1)
             calls2 == IF called
                       THEN Append(calls, Called(m.tool_name, arguments.v, "inline"))
                       ELSE calls
             \* the try block ends with the new text or with what was raised
             tried ==
                 IF arguments.exc THEN arguments
                 ELSE IF ~mcp_tools.present
                      THEN ReSub(m, <<Cross, " No MCP tools available for ">> \o m.tool_name,
                                 result_text)
                 ELSE IF tool_result.exc THEN tool_result
                 ELSE ReSub(m, <<Wrench>> \o m.tool_name \o <<": ">> \o tool_result.v, result_text)
             \* the except block; what its re.sub raises leaves the function
             handled == ReSub(m, <<Cross, " Error calling ">> \o m.tool_name \o <<": ">> \o tried.v,
                              result_text)
             after == IF tried.exc THEN handled ELSE tried
         IN IF after.exc THEN [out |-> after, calls |-> calls2]
            ELSE ProcessMatches(Tail(matches), after.v, calls2)

\* llm_client.py:270-299
ProcessToolCallsAsync(text) ==
    LET matches == FindAll(text, 1)
    IN IF matches = <<>> THEN [out |-> Value(text), calls |-> <<>>]
       ELSE ProcessMatches(matches, text, <<>>)

\* the elements of a tool_calls list: {"function": {"name": ...}},
\* {"name": ...}, {"function": 5}, and an element that is no dict
FnCall(name) == [k |-> "function", name |-> name]
CustomCall(name) == [k |-> "custom", name |-> name]
FnNotDict == [k |-> "function_not_dict", name |-> <<>>]
NotDict == [k |-> "not_dict", name |-> <<>>]
ToolCallItems == { FnCall(<<"tool.", "x">>), FnCall(<<"y\\d">>), CustomCall(<<"x">>),
                   FnNotDict, NotDict }
ToolCallLists == UNION { [1..n -> ToolCallItems] : n \in 0..MaxToolCalls }

\* str.replace(tok, "")
RemoveAll(s, tok) == SelectSeq(s, LAMBDA x : x # tok)

\* the entries of the result list, with the keys they have
ResultEntry(tool, result) == [keys |-> {"tool", "result"}, tool |-> tool, v |-> result]
ErrorEntry(tool, msg) == [keys |-> {"tool", "error"}, tool |-> tool, v |-> msg]
NoToolsEntry == [keys |-> {"error"}, tool |-> <<>>, v |-> <<"No MCP tools available">>]
Repr(tool_call) == <<"dict(", tool_call.k, "=">> \o tool_call.name \o <<")">>

\* _execute_tool_calls, the loop (llm_client.py:217-245)
RECURSIVE ExecuteLoop(_, _, _)
ExecuteLoop(tool_calls, results, calls) ==
    IF tool_calls = <<>> THEN [results |-> results, calls |-> calls]
    ELSE LET tool_call == Head(tool_calls)
             tool_name == IF tool_call.k = "function" THEN RemoveAll(tool_call.name, "tool.")
                          ELSE tool_call.name
             result == ToolResult(tool_name, Len(calls) + 1)
             error_msg(e) == <<"Error executing tool ">> \o Repr(tool_call) \o <<": ">> \o e
         IN CASE tool_call.k = "not_dict" ->
                     ExecuteLoop(Tail(tool_calls), results, calls)
              [] tool_call.k = "function_not_dict" ->
                     ExecuteLoop(Tail(tool_calls),
                                 Append(results, ErrorEntry(Repr(tool_call),
                                            error_msg(<<"'int' object has no attribute 'get'">>))),
                                 calls)
              [] OTHER ->
                     ExecuteLoop(Tail(tool_calls),
                                 Append(results,
                                        IF result.exc
                                        THEN ErrorEntry(Repr(tool_call), error_msg(result.v))
                                        ELSE ResultEntry(tool_name, result.v)),
                                 Append(calls, Called(tool_name, <<"{}">>, "structured")))

\* llm_client.py:212-247
ExecuteToolCalls(tool_calls) ==
    IF ~mcp_tools.present THEN [results |-> <<NoToolsEntry>>, calls |-> <<>>]
    ELSE ExecuteLoop(tool_calls, <<>>, <<>>)

\* llm_client.py:249-268, for_streaming = False
FormatEntry(result) ==
    IF "error" \in result.keys THEN <<Cross, " Error: ">> \o result.v
    ELSE <<Wrench>> \o result.tool \o <<": ">> \o result.v
RECURSIVE FormatToolResults(_)
FormatToolResults(results) ==
    IF results = <<>> THEN <<>>
    ELSE IF Len(results) = 1 THEN FormatEntry(results[1])
    ELSE FormatEntry(results[1]) \o <<"\n">> \o FormatToolResults(Tail(results))

\* a variant that never takes the structured calls
Ignored(tool_calls) == FALSE
\* llm_client.py:204: if tool_calls
HasStructuredCalls(tool_calls) == tool_calls # <<>>

\* llm_client.py:196-210
ProcessResponseWithTools(content, has_tool_calls, tool_calls) ==
    IF has_tool_calls /\ HasStructuredCalls(tool_calls)
    THEN LET x == ExecuteToolCalls(tool_calls)
         IN [out |-> Value(FormatToolResults(x.results)), calls |-> x.calls, results |-> x.results]
    ELSE LET y == ProcessToolCallsAsync(content)
         IN [out |-> y.out, calls |-> y.calls, results |-> <<>>]

\* the values of self.mcp_tools: none, or tools with some behaviour
McpToolsValues == { NoTools } \cup [present : {TRUE}, env : [ToolNames -> Outcomes]]

\* llm_client.py:129-131
SetMcpTools(v) ==
    /\ orch = NoRun
    /\ mcp_tools # v
    /\ mcp_tools' = v
    /\ UNCHANGED <<orch, streamVars, mcpVars, clVars, facadeVars>>

\* one call of each function is observed: the functions keep nothing between
\* calls but self.mcp_tools
RunExecuteToolCalls(tool_calls) ==
    /\ orch = NoRun
    /\ LET x == ExecuteToolCalls(tool_calls)
       IN orch' = [NoRun EXCEPT !.op = "_execute_tool_calls", !.has_tool_calls = TRUE,
                                !.tool_calls = tool_calls, !.calls = x.calls,
                                !.results = x.results]
    /\ UNCHANGED <<mcp_tools, streamVars, mcpVars, clVars, facadeVars>>

RunProcessToolCallsAsync(segs) ==
    /\ orch = NoRun
    /\ LET y == ProcessToolCallsAsync(Flatten(segs))
       IN orch' = [NoRun EXCEPT !.op = "_process_tool_calls_async", !.segs = segs,
                                !.text = Flatten(segs), !.calls = y.calls, !.out = y.out]
    /\ UNCHANGED <<mcp_tools, streamVars, mcpVars, clVars, facadeVars>>

RunProcessResponseWithTools(segs, has_tool_calls, tool_calls) ==
    /\ orch = NoRun
    /\ LET z == ProcessResponseWithTools(Flatten(segs), has_tool_calls, tool_calls)
       IN orch' = [NoRun EXCEPT !.op = "_process_response_with_tools", !.segs = segs,
                                !.text = Flatten(segs), !.has_tool_calls = has_tool_calls,
                                !.tool_calls = tool_calls, !.calls = z.calls,
                                !.results = z.results, !.out = z.out]
    /\ UNCHANGED <<mcp_tools, streamVars, mcpVars, clVars, facadeVars>>

OrchNext ==
    \/ \E v \in McpToolsValues : SetMcpTools(v)
    \/ \E tool_calls \in ToolCallLists : RunExecuteToolCalls(tool_calls)
    \/ \E segs \in SegLists(MaxSegments) : RunProcessToolCallsAsync(segs)
    \/ \E segs \in SegLists(MaxContentSegments), has_tool_calls \in BOOLEAN :
           \E tool_calls \in IF has_tool_calls THEN ToolCallLists ELSE { <<>> } :
               RunProcessResponseWithTools(segs, has_tool_calls, tool_calls)

\* llm_client.py:125-127, mcp_tools = None
InitOrch == OrchIdle /\ StreamFrozen /\ McpIdle /\ ClIdle /\ FacadeIdle

SpecOrch == InitOrch /\ [][OrchNext]_vars

\* the markers of the observed text, in order, and those with valid arguments
IsMarker(seg) == seg[1] = Open
MarkersOf(segs) == SelectSeq(segs, IsMarker)
ArgsOf(seg) == SubSeq(seg, 4, Len(seg) - 1)
ValidArgs(seg) == ~JsonLoads(ArgsOf(seg)).exc
Inline == orch.op = "_process_tool_calls_async" /\ mcp_tools.present
\* the tokens that only marker text holds
MarkerTokens == { Open, Colon, Close } \cup UNION { Range(a) : a \in ArgTexts }

(***************************************************************************)
(* The chat backend (LLMClient, llm_client.py:10-26) is outside the        *)
(* orchestrator: what it streams and what it answers is any of these.      *)
(***************************************************************************)
\* A chunk of llm_client.chat_stream: {"message": {"content": ...}, "done": ...};
\* has_content says whether the message carries a "content" key.
Chunk(done, has_content, content) ==
    [done |-> done, has_content |-> has_content, content |-> content]

\* the third holds an inline marker
ContentChunks == { Chunk(FALSE, TRUE, <<"x">>), Chunk(FALSE, TRUE, <<"y">>),
                   Chunk(FALSE, TRUE, Marker("x", <<"{}">>)) }
EmptyChunk    == Chunk(FALSE, TRUE, <<>>)
BareChunk     == Chunk(FALSE, FALSE, <<>>)
NonTerminalChunks == ContentChunks \cup {EmptyChunk, BareChunk}
TerminalChunks == { Chunk(TRUE, TRUE, <<>>), Chunk(TRUE, FALSE, <<>>) }

\* What llm_client.chat gives for the non-streaming request: None, a response
\* whose message content is a text (possibly empty), or a raised exception.
BackendNone  == [k |-> "none",  content |-> <<>>]
BackendRaise == [k |-> "raise", content |-> <<>>]
BackendText(c) == [k |-> "resp", content |-> c]
\* {"message": {"content": null}}
BackendNull  == [k |-> "null",  content |-> <<>>]
ChatResponses ==
    {BackendNone, BackendRaise, BackendNull, BackendText(<<>>), BackendText(<<"full">>),
     BackendText(<<Prose>> \o Marker("x", <<"{}">>))}

Models   == {"m1", "m2"}
Messages == {"hi", "yo"}
SystemPrompts == {None, PyStr("sys")}
Requests == [model : Models, message : Messages, system_prompt : SystemPrompts]

(***************************************************************************)
(* ToolIntegratedLLMClient.chat (llm_client.py:133-147) for a response     *)
(* without structured tool calls: what it sends and what it returns.       *)
(***************************************************************************)
\* a variant that sends the description without the caller's system prompt
ChatRequestWithoutSystem(req) ==
    [api |-> "chat", model |-> req.model, message |-> req.message,
     system |-> FullSystemPrompt(None)]

ChatRequest(req) ==
    [api |-> "chat", model |-> req.model, message |-> req.message,
     system |-> FullSystemPrompt(req.system_prompt)]

\* a variant of chat that answers with a text when the backend gave nothing
ChatReturnPlaceholder(resp) ==
    CASE resp.k \in {"raise", "null"} ->
             [raised |-> TRUE,  value |-> None, calls |-> <<>>, backend |-> resp.k]
      [] resp.k = "none"  ->
             [raised |-> FALSE, value |-> PyStr(<<"No response">>), calls |-> <<>>,
              backend |-> resp.k]
      [] OTHER ->
             LET z == ProcessResponseWithTools(resp.content, FALSE, <<>>)
             IN IF z.out.exc
                THEN [raised |-> TRUE, value |-> None, calls |-> z.calls, backend |-> resp.k]
                ELSE [raised |-> FALSE, value |-> PyStr(z.out.v), calls |-> z.calls,
                      backend |-> resp.k]

\* [raised, value, calls, backend]: value is None or the text processed by
\* _process_response_with_tools (line 147), calls are the tools it executed,
\* backend is the kind of answer llm_client.chat gave. A response whose
\* content is null makes re.findall raise (lines 199, 209, 274).
ChatReturn(resp) ==
    CASE resp.k \in {"raise", "null"} ->
             [raised |-> TRUE,  value |-> None, calls |-> <<>>, backend |-> resp.k]
      [] resp.k = "none"  ->
             [raised |-> FALSE, value |-> None, calls |-> <<>>, backend |-> resp.k]
      [] OTHER ->
             LET z == ProcessResponseWithTools(resp.content, FALSE, <<>>)
             IN IF z.out.exc
                THEN [raised |-> TRUE, value |-> None, calls |-> z.calls, backend |-> resp.k]
                ELSE [raised |-> FALSE, value |-> PyStr(z.out.v), calls |-> z.calls,
                      backend |-> resp.k]

\* a variant of the forwarding that substitutes the markers of a chunk
Substituted(c) ==
    IF c.has_content /\ ~ProcessToolCallsAsync(c.content).out.exc
    THEN [c EXCEPT !.content = ProcessToolCallsAsync(c.content).out.v]
    ELSE c
\* lines 171, 181, 183: yield chunk
Forwarded(c) == c

\* Python truth of chat's return value: `if response:`
Truthy(v) == v # None /\ v.v # <<>>

\* a variant of the test of line 167 that falls back at every terminal chunk
AlwaysFallback(received) == TRUE
\* line 167: if not content_received
NeedsFallback(received) == ~received

\* {"message": {"content": response}, "done": False}
SyntheticChunk(v) == Chunk(FALSE, TRUE, v.v)
\* {"done": True}
DoneChunk == Chunk(TRUE, FALSE, <<>>)

(***************************************************************************)
(* ToolIntegratedLLMClient.chat_stream with mcp_tools set                  *)
(* (llm_client.py:149-190).                                                *)
(***************************************************************************)
StreamInit ==
    /\ st = "Idle"
    /\ request \in Requests
    /\ content_received = FALSE
    /\ accumulated_text = <<>>
    /\ yielded = <<>>
    /\ backend_log = <<>>
    /\ chat_returns = <<>>
    /\ delivered = 0
    /\ stream_in = <<>>
    /\ saw_terminal = FALSE
    /\ saw_fault = FALSE

\* lines 152-163: build the prompt and open the backend stream
StartStream ==
    /\ st = "Idle"
    /\ UNCHANGED <<mcpVars, clVars, orchVars, facadeVars>>
    /\ st' = "AwaitingBackend"
    /\ backend_log' = Append(backend_log,
           [api |-> "chat_stream", model |-> request.model,
            message |-> request.message,
            system |-> FullSystemPrompt(request.system_prompt)])
    /\ UNCHANGED <<request, content_received, accumulated_text, yielded,
                   chat_returns, delivered, stream_in, saw_terminal, saw_fault>>

\* lines 185-190: the except branch. r is the backend's answer to the call of
\* self.chat made there; when that call raises nothing catches it.
ExceptBranch(log, rets, out, r) ==
    LET ret == ChatReturn(r) IN
    /\ backend_log' = Append(log, ChatRequest(request))
    /\ chat_returns' = Append(rets, ret)
    /\ IF ret.raised
       THEN /\ st' = "Raised"
            /\ yielded' = out
       ELSE /\ st' = "Done"
            /\ yielded' = (IF Truthy(ret.value)
                           THEN Append(out, SyntheticChunk(ret.value))
                           ELSE out) \o <<DoneChunk>>

\* lines 174-183: a chunk that is not terminal
OnChunk(c) ==
    /\ st = "AwaitingBackend"
    /\ UNCHANGED <<mcpVars, clVars, orchVars, facadeVars>>
    /\ delivered < MaxChunks
    /\ c \in NonTerminalChunks
    /\ delivered' = delivered + 1
    /\ stream_in' = Append(stream_in, c)
    /\ IF c.has_content
       THEN IF c.content # <<>>
            THEN /\ content_received' = TRUE
                 /\ accumulated_text' = accumulated_text \o c.content
                 /\ yielded' = Append(yielded, Forwarded(c))
            ELSE UNCHANGED <<content_received, accumulated_text, yielded>>
       ELSE /\ yielded' = Append(yielded, Forwarded(c))
            /\ UNCHANGED <<content_received, accumulated_text>>
    /\ UNCHANGED <<st, request, backend_log, chat_returns, saw_terminal, saw_fault>>

\* lines 164-172: the terminal chunk. r1 answers the fallback call of line 168;
\* when it raises, the except branch of line 185 runs and calls self.chat again
\* (answered by r2).
OnTerminalChunk(c, r1, r2) ==
    /\ st = "AwaitingBackend"
    /\ UNCHANGED <<mcpVars, clVars, orchVars, facadeVars>>
    /\ c \in TerminalChunks
    /\ delivered' = delivered + 1
    /\ stream_in' = Append(stream_in, c)
    /\ saw_terminal' = TRUE
    /\ IF ~NeedsFallback(content_received)
       THEN /\ yielded' = Append(yielded, Forwarded(c))
            /\ st' = "Done"
            /\ UNCHANGED <<backend_log, chat_returns>>
       ELSE LET ret == ChatReturn(r1) IN
            IF ret.raised
            THEN ExceptBranch(Append(backend_log, ChatRequest(request)),
                              Append(chat_returns, ret), yielded, r2)
            ELSE /\ backend_log' = Append(backend_log, ChatRequest(request))
                 /\ chat_returns' = Append(chat_returns, ret)
                 /\ yielded' = (IF Truthy(ret.value)
                                THEN Append(yielded, SyntheticChunk(ret.value))
                                ELSE yielded) \o <<Forwarded(c)>>
                 /\ st' = "Done"
    /\ UNCHANGED <<request, content_received, accumulated_text, saw_fault>>

\* line 163: the backend stream ends without a terminal chunk (the async for
\* loop is exhausted; OllamaHTTPClient.chat_stream returns this way on a
\* transport error, lines 114-119)
OnStreamEnd ==
    /\ st = "AwaitingBackend"
    /\ UNCHANGED <<mcpVars, clVars, orchVars, facadeVars>>
    /\ st' = "Done"
    /\ UNCHANGED <<request, content_received, accumulated_text, yielded,
                   backend_log, chat_returns, delivered, stream_in, saw_terminal,
                   saw_fault>>

\* line 163 raising: the backend stream raises, at any point
OnStreamFault(r) ==
    /\ st = "AwaitingBackend"
    /\ UNCHANGED <<mcpVars, clVars, orchVars, facadeVars>>
    /\ saw_fault' = TRUE
    /\ ExceptBranch(backend_log, chat_returns, yielded, r)
    /\ UNCHANGED <<request, content_received, accumulated_text, delivered,
                   stream_in, saw_terminal>>

StreamNext ==
    \/ StartStream
    \/ \E c \in NonTerminalChunks : OnChunk(c)
    \/ \E c \in TerminalChunks, r1, r2 \in ChatResponses : OnTerminalChunk(c, r1, r2)
    \/ OnStreamEnd
    \/ \E r \in ChatResponses : OnStreamFault(r)

\* llm_client.py:125-131: tools are set, no tool call execution is observed
\* (the texts of the chat backend name tool x only)
ToolsSet ==
    /\ mcp_tools \in { v \in McpToolsValues : v.present /\ v.env["y\\d"] = "ok" }
    /\ orch = NoRun

\* the orchestrator is constructed; the MCP parts are not in use
InitStream == StreamInit /\ McpIdle /\ ClIdle /\ ToolsSet /\ FacadeIdle
SpecStream == InitStream /\ [][StreamNext]_vars

\* number of invocations of the non-streaming chat path so far
ChatCalls == Len(chat_returns)

\* the generator has returned, or an exception has left it
Finished == st \in {"Done", "Raised"}

Last(q) == q[Len(q)]

(***************************************************************************)
(* C1: when the backend stream delivers its terminal chunk and no chunk    *)
(* with non-empty content came before it, the non-streaming chat path is   *)
(* invoked exactly once, its text (when it gave one) is yielded as one     *)
(* chunk with done = false, and the terminal chunk is yielded last.        *)
(***************************************************************************)
C1_FallbackExactlyOnce ==
    (Finished /\ saw_terminal /\ ~content_received) =>
        /\ ChatCalls = 1
        /\ st = "Done"
        /\ yielded # <<>>
        /\ Last(yielded) \in TerminalChunks
        /\ \A i \in 1..(Len(yielded) - 1) : ~yielded[i].done
        /\ Truthy(chat_returns[1].value) =>
               /\ Len(yielded) >= 2
               /\ yielded[Len(yielded) - 1] = SyntheticChunk(chat_returns[1].value)

(***************************************************************************)
(* C2: when the backend stream raises, the non-streaming fallback is       *)
(* invoked and afterwards a terminal chunk (done = true) is yielded.       *)
(***************************************************************************)
C2_FaultEndsWithTerminal ==
    (Finished /\ saw_fault) =>
        /\ ChatCalls >= 1
        /\ yielded # <<>>
        /\ Last(yielded).done

\* s is q with some elements left out
RECURSIVE IsSubSeq(_, _)
IsSubSeq(s, q) ==
    IF s = <<>> THEN TRUE
    ELSE IF q = <<>> THEN FALSE
    ELSE IF Head(s) = Head(q) THEN IsSubSeq(Tail(s), Tail(q))
    ELSE IsSubSeq(s, Tail(q))

\* the chunks yielded by forwarding: all of them before the fallback; after
\* it, all but the fallback's text (when it gave one) and the closing chunk
ForwardedPart ==
    IF ChatCalls = 0 \/ st = "Raised" THEN yielded
    ELSE SubSeq(yielded, 1,
                Len(yielded) - (IF Truthy(Last(chat_returns).value) THEN 2 ELSE 1))

\* C21: in the streaming path no marker is substituted: the chunks forwarded
\* to the caller are chunks of the backend stream, unmodified and in order
\* (a marker in them stays as it is); the markers are substituted in the text
\* the non-streaming fallback returns.
C21_ForwardedChunksUntouched ==
    /\ IsSubSeq(ForwardedPart, stream_in)
    /\ \A i \in 1..ChatCalls :
           Truthy(chat_returns[i].value) => Open \notin Range(chat_returns[i].value.v)

\* a chunk that holds a marker was forwarded as it came, and the fallback
\* that followed executed the marker of its own text
C21_Witness ==
    /\ st = "Done"
    /\ \E i \in 1..Len(yielded) : yielded[i].content = Marker("x", <<"{}">>)
    /\ ChatCalls = 1
    /\ chat_returns[1].calls # <<>>
    /\ Truthy(chat_returns[1].value)

\* C28: every request sent to the backend carries the caller's model and
\* message and a system prompt made of the caller's system prompt (when there
\* is one) followed by the capability description; the request of the
\* non-streaming fallback carries the same three as the streaming request.
C28_AugmentedSystemPrompt ==
    \A i \in 1..Len(backend_log) :
        LET r == backend_log[i]
            n == Len(r.system)
        IN /\ r.model = request.model
           /\ r.message = request.message
           /\ n >= Len(tools_desc)
           /\ SubSeq(r.system, n - Len(tools_desc) + 1, n) = tools_desc
           /\ request.system_prompt # None => r.system[1] = request.system_prompt.v
           /\ r.system = backend_log[1].system

\* the fallback has sent its request for a caller who gave a system prompt
C28_Witness ==
    /\ Len(backend_log) >= 2
    /\ backend_log[1].api = "chat_stream"
    /\ backend_log[2].api = "chat"
    /\ request.system_prompt # None

\* C30: whatever the backend does, the chunks yielded by a chat_stream that
\* has returned hold exactly one terminal chunk (done = true), and it is the
\* last one.
C30_OneTerminalChunkLast ==
    st = "Done" =>
        /\ yielded # <<>>
        /\ Last(yielded).done
        /\ \A i \in 1..(Len(yielded) - 1) : ~yielded[i].done

\* C31: within one chat_stream the non-streaming chat path is invoked at
\* most once, whatever the backend does, also when the fallback call of the
\* empty-stream branch raises.
C31_ChatAtMostOnce == ChatCalls <= 1

\* the fallback has emitted the text of the non-streaming response
SyntheticEmitted ==
    /\ st = "Done"
    /\ ChatCalls > 0
    /\ Truthy(Last(chat_returns).value)

\* C32: the caller never gets the answer twice: once a chunk with non-empty
\* content has been forwarded, no chunk carrying the text of the non-streaming
\* response is emitted.
C32_NoSyntheticAfterContent == content_received => ~SyntheticEmitted

\* a chunk that is not terminal and holds non-empty content
IsContentChunk(c) == ~c.done /\ c.has_content /\ c.content # <<>>

\* C33: every chunk with non-empty content that the backend sent before the
\* terminal chunk is forwarded to the caller exactly once and in arrival
\* order, and a terminal chunk that follows such a chunk triggers no
\* non-streaming backend call.
C33_ContentForwardedInOrder ==
    /\ SelectSeq(ForwardedPart, IsContentChunk) = SelectSeq(stream_in, IsContentChunk)
    /\ (saw_terminal /\ content_received) =>
           /\ ChatCalls = 0
           /\ \A i \in 1..Len(backend_log) : backend_log[i].api = "chat_stream"

\* two content chunks, the same one twice, then the terminal chunk
C33_Witness ==
    /\ st = "Done"
    /\ saw_terminal
    /\ Len(stream_in) = 3
    /\ IsContentChunk(stream_in[1])
    /\ stream_in[2] = stream_in[1]
    /\ yielded = stream_in

\* C38: chat returns None and executes no tool when the backend's
\* non-streaming call gives nothing; the fallback of chat_stream then emits
\* no chunk for the response: after the chunks without content that it
\* forwarded comes the terminal chunk only.
C38_NothingFromBackendIsNone ==
    /\ \A i \in 1..ChatCalls :
           chat_returns[i].backend = "none" =>
               /\ ~chat_returns[i].raised
               /\ chat_returns[i].value = None
               /\ chat_returns[i].calls = <<>>
    /\ (st = "Done" /\ saw_terminal /\ ChatCalls = 1 /\ chat_returns[1].backend = "none") =>
           yielded = SelectSeq(stream_in, LAMBDA c : ~c.has_content \/ c.done)

\* the stream held a chunk without content and the terminal chunk, and the
\* fallback got nothing from the backend
C38_Witness ==
    /\ st = "Done"
    /\ saw_terminal
    /\ ChatCalls = 1
    /\ chat_returns[1].backend = "none"
    /\ Len(yielded) = 2
    /\ Last(yielded).done

(***************************************************************************)
(* The namespacing of the monolithic client (src/client.py).  Names are    *)
(* texts, modelled as sequences of characters, so that the concatenation   *)
(* of line 198 is computed and not assumed to be injective.                *)
(***************************************************************************)
\* tools one server declares at most
MaxDeclared == 2

ClServerNames == { <<"a">>, <<"b">>, <<"a", "_", "b">> }
ClLocalNames == { <<"c">>, <<"b", "_", "c">>, <<"foo">> }
\* the configurations: two enabled subprocess servers, in the order of the mapping
ClConfigs == { <<x, y>> : x, y \in ClServerNames } \ { <<x, x>> : x \in ClServerNames }
\* what one server answers to tools/list: the local names of its tools
DeclLists == UNION { [1..n -> ClLocalNames] : n \in 0..MaxDeclared }

\* client.py:197-198: tool["server"] = server_name;
\* tool["name"] = f"{server_name}_{tool['name']}".  `local` is the name the
\* server knows the tool by.
ClTool(server_name, name) ==
    [name |-> server_name \o <<"_">> \o name, server |-> server_name, local |-> name]

\* ToolDiscovery.discover_all_tools (client.py:188-206) over the registry
\* `order`, when server s declares the tools decl[s]
RECURSIVE ClDiscoverAllTools(_, _)
ClDiscoverAllTools(order, decl) ==
    IF order = <<>> THEN <<>>
    ELSE [i \in 1..Len(decl[Head(order)]) |-> ClTool(Head(order), decl[Head(order)][i])]
            \o ClDiscoverAllTools(Tail(order), decl)

\* MCPTools.initialize_servers (client.py:684-691): ServerManager registers
\* every enabled server (108-121), discovery builds the catalog
ClInitializeServers(decl) ==
    /\ cl_servers = <<>>
    /\ cl_servers' = cl_config
    /\ cl_available_tools' = ClDiscoverAllTools(cl_config, decl)
    /\ UNCHANGED <<cl_config, cl_call, cl_sub, streamVars, mcpVars, orchVars, facadeVars>>

\* client.py:975-979: the first catalog entry with that name, 0 when there is none
ClLookup(tool_name) ==
    LET hits == { i \in 1..Len(cl_available_tools) : cl_available_tools[i].name = tool_name }
    IN IF hits = {} THEN 0 ELSE CHOOSE i \in hits : \A j \in hits : i <= j

\* MCPTools.call_tool (client.py:971-1001), called with the namespaced name of
\* the catalog entry k the caller means; the entry found decides the server
ClCallTool(k) ==
    /\ k \in 1..Len(cl_available_tools)
    /\ cl_call' = [name |-> cl_available_tools[k].name,
                   intended |-> k,
                   resolved |-> ClLookup(cl_available_tools[k].name)]
    /\ UNCHANGED <<cl_config, cl_servers, cl_available_tools, cl_sub, streamVars, mcpVars, orchVars,
                   facadeVars>>

ClInit ==
    /\ cl_config \in ClConfigs
    /\ cl_servers = <<>>
    /\ cl_available_tools = <<>>
    /\ cl_call = NoCall
    /\ cl_sub = NoSub

ClNext ==
    \/ \E decl \in [ClServerNames -> DeclLists] : ClInitializeServers(decl)
    \/ \E k \in 1..(2 * MaxDeclared) : ClCallTool(k)

InitNs == ClInit /\ StreamFrozen /\ McpIdle /\ OrchIdle /\ FacadeIdle
SpecNs == InitNs /\ [][ClNext]_vars

(***************************************************************************)
(* The modular package, one step per operation: MCPTools.__init__,         *)
(* initialize_servers (ServerManager, then ToolDiscovery) and              *)
(* get_tools_description.  Every configured server is a subprocess server  *)
(* whose command exists and which answers tools/list with its declared     *)
(* tools.                                                                  *)
(***************************************************************************)
MaxListed == 2

\* the environment of the client process, and the environments a server
\* configuration declares
EnvVars == {"PATH", "HOME"}
OsEnviron == [PATH |-> "/usr/bin", HOME |-> "/root"]
DeclaredEnvs == { None, [PATH |-> "/opt/bin"] }

\* subprocess.Popen(..., env=env): the child gets env, the environment of
\* the parent only when env is None
ChildEnvironment(env) == IF env = None THEN OsEnviron ELSE env

\* an entry of inputSchema.properties, and an entry of a tools/list result
Param(required) == [name |-> "p", type |-> "string", required |-> required]
ToolDatas == { [name |-> "foo", description |-> "does foo", properties |-> <<>>],
               [name |-> "foo", description |-> "does foo", properties |-> <<Param(TRUE)>>],
               [name |-> "bar", description |-> "does bar", properties |-> <<Param(FALSE)>>] }
RECURSIVE ToolDataLists(_)
ToolDataLists(n) ==
    IF n = 0 THEN { <<>> }
    ELSE LET shorter == ToolDataLists(n - 1)
         IN  shorter \cup { Append(l, d) : l \in { s \in shorter : Len(s) = n - 1 }, d \in ToolDatas }

\* one entry of the "servers" section of config.json; declares is what the
\* server process answers to tools/list
FcServerConfigs(name) ==
    [ name : {name}, type : {"subprocess"}, enabled : BOOLEAN, env : DeclaredEnvs,
      description : { <<name, " tools">> }, declares : ToolDataLists(MaxListed) ]
FcConfigs ==
    { <<a, b>> : a \in FcServerConfigs("a"), b \in FcServerConfigs("local_server") }
        \cup { <<b, a>> : a \in FcServerConfigs("a"), b \in FcServerConfigs("local_server") }

\* the test of the flag, with the flag ignored
IsConfigured(server_config) == TRUE
\* if not server_config.get("enabled", True): return
IsEnabled(server_config) == server_config.enabled

\* ServerManager.initialize_servers: the registry and the Popen calls it
\* leaves, over the configured servers in order
RECURSIVE FcRegister(_)
FcRegister(servers_config) ==
    IF servers_config = <<>> THEN [servers |-> <<>>, spawned |-> <<>>]
    ELSE LET server_config == Head(servers_config)
             rest == FcRegister(Tail(servers_config))
         IN  IF ~IsEnabled(server_config) THEN rest
             ELSE [ servers |-> <<[name |-> server_config.name,
                                   type |-> "subprocess",
                                   process |-> server_config.name,
                                   config |-> server_config]>> \o rest.servers,
                    spawned |-> <<[name |-> server_config.name,
                                   env |-> ChildEnvironment(server_config.env)]>> \o rest.spawned ]

\* the tool_info built from one entry of a tools/list result
FcToolInfo(tool_data, process) ==
    [ name |-> LocalServerPrefix \o <<tool_data.name>>,
      server_name |-> "local_server",
      description |-> tool_data.description,
      parameters |-> tool_data.properties,
      process |-> process ]

\* _discover_subprocess_tools: one tool_info per entry, in order
DiscoverSubprocessTools(server_info) ==
    [ i \in 1..Len(server_info.config.declares) |->
        FcToolInfo(server_info.config.declares[i], server_info.process) ]

\* discover_all_tools: all_tools.extend(tools) over the registry in order
RECURSIVE FcDiscoverAllTools(_)
FcDiscoverAllTools(servers_) ==
    IF servers_ = <<>> THEN <<>>
    ELSE DiscoverSubprocessTools(Head(servers_)) \o FcDiscoverAllTools(Tail(servers_))

\* the description is a text of lines, a line a sequence of tokens
Antenna == "[A] "
Dash == "  - "
Parameters == "    Parameters: "
Header == <<"You have access to these MCP tools:">>
NoToolsAvailable == <<"No MCP tools available.">>
Instruction == <<"To use a tool, include: [TOOL:tool_name:{\"param\":\"value\"}]">>

\* the server names of the catalog, in order of first appearance
RECURSIVE GroupNames(_, _)
GroupNames(tools, seen) ==
    IF tools = <<>> THEN <<>>
    ELSE IF Head(tools).server_name \in seen THEN GroupNames(Tail(tools), seen)
    ELSE <<Head(tools).server_name>> \o GroupNames(Tail(tools), seen \cup {Head(tools).server_name})

\* ServerManager.get_server(server_name).get("config", {}).get("description", ...)
ServerDesc(servers_, server_name) ==
    LET found == { i \in 1..Len(servers_) : servers_[i].name = server_name }
    IN  IF found = {} THEN <<server_name, " server">>
        ELSE servers_[CHOOSE i \in found : TRUE].config.description

\* f"{param_name} ({param_type}){required}"
ParamText(param_info) ==
    <<param_info.name, " (", param_info.type, ")">>
        \o (IF param_info.required THEN <<" (required)">> ELSE <<>>)

RECURSIVE JoinParams(_)
JoinParams(parameters) ==
    IF parameters = <<>> THEN <<>>
    ELSE IF Len(parameters) = 1 THEN ParamText(Head(parameters))
    ELSE ParamText(Head(parameters)) \o <<", ">> \o JoinParams(Tail(parameters))

\* the lines of one tool
ToolLines(tool) ==
    << <<Dash>> \o tool.name \o <<": ", tool.description>> >>
        \o (IF tool.parameters = <<>> THEN <<>>
            ELSE << <<Parameters>> \o JoinParams(tool.parameters) >>)

RECURSIVE GroupLines(_, _)
GroupLines(tools, server_name) ==
    IF tools = <<>> THEN <<>>
    ELSE (IF Head(tools).server_name = server_name THEN ToolLines(Head(tools)) ELSE <<>>)
             \o GroupLines(Tail(tools), server_name)

RECURSIVE ServerLines(_, _, _)
ServerLines(groups, tools, servers_) ==
    IF groups = <<>> THEN <<>>
    ELSE << <<Antenna>> \o ServerDesc(servers_, Head(groups)) \o <<":">> >>
             \o GroupLines(tools, Head(groups))
             \o ServerLines(Tail(groups), tools, servers_)

\* MCPTools.get_tools_description
GetToolsDescription(tools, servers_) ==
    IF tools = <<>> THEN <<NoToolsAvailable>>
    ELSE <<Header, <<>>>> \o ServerLines(GroupNames(tools, {}), tools, servers_)
             \o << <<>>, <<>>, Instruction >>

\* MCPTools.initialize_servers
FcInitializeServers ==
    /\ fc_pc = "constructed"
    /\ fc_out = NoOut
    /\ LET done == FcRegister(fc_config)
       IN  /\ fc_servers' = done.servers
           /\ fc_spawned' = done.spawned
           /\ fc_available_tools' = FcDiscoverAllTools(done.servers)
    /\ fc_pc' = "initialized"
    /\ UNCHANGED <<fc_config, fc_out, remote, streamVars, mcpVars, clVars, orchVars>>

\* MCPTools.get_tools_description, before or after initialize_servers
FcGetToolsDescription ==
    /\ fc_out = NoOut
    /\ fc_out' = [op |-> "desc", v |-> GetToolsDescription(fc_available_tools, fc_servers)]
    /\ UNCHANGED <<fc_config, fc_servers, fc_spawned, fc_available_tools, fc_pc, remote,
                   streamVars, mcpVars, clVars, orchVars>>

FacadeInit ==
    /\ fc_config \in FcConfigs
    /\ fc_servers = <<>>
    /\ fc_spawned = <<>>
    /\ fc_available_tools = <<>>
    /\ fc_pc = "constructed"
    /\ fc_out = NoOut
    /\ remote = NoRemote

FacadeNext ==
    \/ FcInitializeServers
    \/ FcGetToolsDescription

InitFacade == FacadeInit /\ StreamFrozen /\ McpIdle /\ ClIdle /\ OrchIdle
SpecFacade == InitFacade /\ [][FacadeNext]_vars

(***************************************************************************)
(* Properties of the modular MCP package, checked under SpecMcp.           *)
(***************************************************************************)
\* a call of MCPTools.call_tool by task t has returned
Returned(t) == task[t].op = "call" /\ task[t].pc = "done"
\* task t is in ToolDiscovery.discover_all_tools
Discovering(t) == task[t].op \in {"init", "disc"} /\ task[t].pc \notin {"idle", "done"}
\* MCPTools.initialize_servers has returned
Initialized == ops.init = 1 /\ ~(task[MainTask].op = "init" /\ task[MainTask].pc # "done")

\* C3: whatever the tool name and whatever the server does, a call of
\* MCPTools.call_tool that has returned has returned a string.
C3_CallToolReturnsString ==
    \A t \in Tasks : Returned(t) => IsStr(task[t].result)

\* C4: a read from a tool server that stays silent does not block for good:
\* the task that reads can still take a step (the timeout would be that step).
C4_SilentServerDoesNotHang ==
    \A t \in Tasks :
        (task[t].pc \in ReadPcs /\ procs[ReadingFrom(t)].mode = "silent")
            => ENABLED TaskStep(t)

\* C5: when the line read after tools/call is a response whose id is not the
\* id of the request, the call returns a failure, never that line's result.
C5_MismatchedIdIsProtocolError ==
    \A t \in Tasks :
        (/\ Returned(t)
         /\ Len(task[t].trace) = 2
         /\ task[t].trace[2].what \in {"result", "error", "both", "neither"}
         /\ task[t].trace[2].id # task[t].trace[1].id)
            => IsFailure(task[t].result)

\* the messages of one discovery exchange, in their order
DiscoveryOrder ==
    << [dir |-> "out", what |-> {"initialize"}],
       [dir |-> "in",  what |-> {"eof", "bad", "result", "error", "both", "neither"}],
       [dir |-> "out", what |-> {"notifications/initialized"}],
       [dir |-> "out", what |-> {"tools/list"}],
       [dir |-> "in",  what |-> {"eof", "bad", "result", "error", "both", "neither"}] >>

\* C6: the messages of a discovery exchange follow the order initialize,
\* its response, notifications/initialized, tools/list, its response; the
\* notification is sent only after an initialize response with a result, and
\* after an initialize response with an error nothing more is sent.
C6_DiscoveryOrder ==
    \A t \in Tasks :
        Discovering(t) =>
            LET tr == task[t].trace IN
            /\ Len(tr) <= Len(DiscoveryOrder)
            /\ \A k \in 1..Len(tr) :
                   tr[k].dir = DiscoveryOrder[k].dir /\ tr[k].what \in DiscoveryOrder[k].what
            /\ Len(tr) >= 3 => tr[2].what \in {"result", "both"}
            /\ (Len(tr) >= 2 /\ tr[2].what \in {"error", "both"}) => Len(tr) = 2

\* C7: on every process at most one request is written and not yet answered,
\* and while one is, the task that wrote it is the one that holds the event
\* loop, so that no other task reads or writes the pipes meanwhile.
C7_OneRequestOutstanding ==
    \A p \in ServerNames :
        /\ Cardinality(procs[p].pending) <= 1
        /\ \A t \in procs[p].pending : running = t /\ task[t].pc \in ReadPcs

\* the line read after tools/list is no usable answer: end of file, no result
\* member, or an entry that is no object
ListFailed(l) == l.k # "obj" \/ HasResult(l) # "T" \/ Malformed(l)

\* C11: when the exchange with one server ends on a failure (a write that
\* fails, an initialize response without result, a tools/list line that is
\* no usable answer), that server adds no tool, and the tools of the servers
\* before it are kept while discovery goes on to the next server.
C11_FailedServerYieldsNoTools ==
    [][\A t \in Tasks :
          Discovering(t) =>
              /\ task'[t].op = task[t].op =>
                     SubSeq(task'[t].all_tools, 1, Len(task[t].all_tools)) = task[t].all_tools
              /\ (/\ task'[t].i # task[t].i
                  /\ task[t].pc # "r_list" \/ ListFailed(procs'[ProcessAt(t)].listed))
                     => /\ task'[t].all_tools = task[t].all_tools
                        /\ task'[t].pc \in {"w_init", "done"}]_vars

\* a discovery sleeps between its notification and tools/list on a process while
\* a tool call of another task has its request outstanding on the same process
C7_Witness ==
    \E t, u \in Tasks :
        /\ t # u
        /\ Discovering(t) /\ task[t].pc = "w_list"
        /\ task[u].op = "call" /\ task[u].pc = "r_call"
        /\ task[u].proc = ProcessAt(t)
        /\ procs[task[u].proc].pending = {u}

\* the indices of the configured servers
Positions == 1..Len(config)

\* C8: after initialize_servers, two configured servers that each declared a
\* tool foo both have a catalog entry of their own: the name is the server's
\* name, "_" and foo, and the owner is that server.
C8_SameToolOnTwoServers ==
    (/\ Initialized
     /\ ops.disc = 0
     /\ \A k \in Positions : config[k].good /\ <<"foo">> \in Declared(procs[config[k].name].listed))
        => \A k \in Positions :
              \E i \in 1..Len(available_tools) :
                  /\ available_tools[i].name = Namespaced(config[k].name, <<"foo">>)
                  /\ available_tools[i].server_name = config[k].name

\* the catalog as a set of pairs: the process an entry came from, its local name
CatalogOrigins ==
    { <<available_tools[i].process,
        SubSeq(available_tools[i].name, Len(LocalServerPrefix) + 1, Len(available_tools[i].name))>> :
        i \in 1..Len(available_tools) }

\* C10: every server whose command can be spawned gets registered, whatever
\* fails before or after it, and after initialize_servers the catalog holds
\* the tools that the spawned servers declared, and no other (when their
\* tools/list answers are lists of objects).
C10_SpawnFailureIsolated ==
    /\ ops.init = 1 =>
          \A k \in Positions :
              config[k].good <=> servers[config[k].name] = Entry(config[k].name)
    /\ (/\ Initialized
        /\ ops.disc = 0
        /\ \A k \in Positions : ~Malformed(procs[config[k].name].listed)) =>
          CatalogOrigins =
              UNION { { <<config[k].name, n>> : n \in Declared(procs[config[k].name].listed) } :
                        k \in { j \in Positions : config[j].good } }

\* the first server fails to spawn, the second spawned and its tools are there
C10_Witness ==
    /\ Initialized
    /\ ops.disc = 0
    /\ ~config[1].good
    /\ config[2].good
    /\ Declared(procs[config[2].name].listed) # {}
    /\ available_tools # <<>>


\* a call by task t that has read its line
Answer(t) == task[t].trace[2]
Read(t) == Returned(t) /\ Len(task[t].trace) = 2

\* C12: when the line read after tools/call carries an error member, the call
\* returns a failure result that holds the message of that error.
C12_ErrorResponseIsFailure ==
    \A t \in Tasks :
        (Read(t) /\ Answer(t).what \in {"error", "both"})
            => /\ IsFailure(task[t].result)
               /\ Range(Answer(t).line.error.v.v) \subseteq Range(task[t].result.v)

\* the result carries a non-empty content list
HasContent(x) == IsDict(x) /\ x.v # Absent /\ x.v.t = "list" /\ x.v.v # <<>>

\* C13: a result with a non-empty content list is unwrapped to the text of
\* its first element; any other result is returned stringified.
C13_UnwrapOrStringify ==
    \A t \in Tasks :
        (Read(t) /\ Answer(t).what = "result")
            => LET r == Answer(t).line.result
                   \* str(x) of a value that is not unwrapped
                   Stringified(x) ==
                       CASE x.t = "str"  -> x.v
                         [] x.t = "num"  -> <<"7">>
                         [] x.t = "null" -> <<"None">>
                         [] x.t = "dict" /\ x.v = Absent -> <<"{}">>
                         [] OTHER -> <<"{...}">>
               IN
               IF HasContent(r)
               THEN r.v.v[1].v.t = "str" => task[t].result = PyStr(r.v.v[1].v.v)
               ELSE task[t].result = PyStr(Stringified(r))

\* C14: a tools/call request is on its way to a process only when a handshake
\* was completed on that process before.
C14_CallOnlyAfterHandshake ==
    \A t \in Tasks :
        (task[t].op = "call" /\ task[t].trace # <<>>) => procs[task[t].proc].shaken

\* the local names the servers declared in their last tools/list answers
AllDeclared == UNION { Declared(procs[p].listed) : p \in ServerNames }

\* C15: the name sent in tools/call is the local name the server declared for
\* the catalog entry: the entry's name without its leading namespace prefix.
C15_StripRoundTrip ==
    \A t \in Tasks :
        (/\ task[t].op = "call"
         /\ task[t].trace # <<>>
         /\ SubSeq(task[t].arg, 3, Len(task[t].arg)) \in AllDeclared)
            => task[t].trace[1].what
                   = <<"tools/call">> \o SubSeq(task[t].arg, 3, Len(task[t].arg))

\* tools.py:28-32, tool_executor.py:17-18 and 75: the process that a call of
\* the tool named name would write to in this state, NoProcess when the call
\* would end before the write
Handle(name) ==
    IF Lookup(name) = 0 THEN NoProcess
    ELSE GetServer(available_tools[Lookup(name)].server_name).process

\* C22: after a tool call has failed because its process closed the pipe (the
\* read gave end of file), the handle is unusable: no tool call would go to
\* that process any more.
C22_FailedHandleIsUnusable ==
    \A t \in Tasks :
        (Read(t) /\ Answer(t).line = EOF)
            => \A name \in CallNames : Handle(name) # task[t].proc

\* C34: a tool call is executed against the server the tool was discovered
\* from: for every catalog entry, the registry entry that call_tool resolves
\* for it holds the process whose tools/list answer produced the entry.
C34_CallGoesToDiscoveringServer ==
    \A i \in 1..Len(available_tools) :
        GetServer(available_tools[i].server_name).process = available_tools[i].process

\* task t writes a message in this step
Writes(t) ==
    /\ task'[t].trace # task[t].trace
    /\ task'[t].trace # <<>>
    /\ Last(task'[t].trace).dir = "out"
\* the process it writes to
WrittenTo(t) == IF task'[t].op = "call" THEN task'[t].proc ELSE ProcessAt(t)

\* C35: on one process handle every request carries an id that no earlier
\* request written to that handle carried (initialize, tools/list and every
\* tools/call), and a notification carries no id.
C35_RequestIdsUnique ==
    [][\A t \in Tasks :
          Writes(t) =>
              IF task'[t].op # "call" /\ Last(task'[t].trace).what = "notifications/initialized"
              THEN Last(task'[t].trace).id = 0
              ELSE /\ Last(task'[t].trace).id # 0
                   /\ Last(task'[t].trace).id \notin procs[WrittenTo(t)].ids]_vars

\* C20: a call with a name that no catalog entry has ends at once with a
\* failure result; it writes to no process and leaves the catalog and the
\* registry as they are.
C20_UnknownToolIsFailure ==
    [][\A t \in Tasks :
          (/\ task[t].pc # "r_call"
           /\ task'[t] # task[t]
           /\ task'[t].op = "call"
           /\ \A i \in 1..Len(available_tools) : available_tools[i].name # task'[t].arg)
              => /\ task'[t].pc = "done"
                 /\ IsFailure(task'[t].result)
                 /\ UNCHANGED <<procs, available_tools, servers, reg_order>>]_vars

\* a call with a name that is not in a non-empty catalog has returned
C20_Witness ==
    \E t \in Tasks :
        /\ Returned(t)
        /\ task[t].trace = <<>>
        /\ available_tools # <<>>
        /\ \A i \in 1..Len(available_tools) : available_tools[i].name # task[t].arg
        /\ IsFailure(task[t].result)

(***************************************************************************)
(* Properties of the execution of tool calls, checked under SpecOrch.      *)
(***************************************************************************)
\* the tools called, as pairs of name and arguments, in order
CalledPairs == [i \in 1..Len(orch.calls) |-> <<orch.calls[i].tool_name, orch.calls[i].arguments>>]
\* what executing each given marker once, in order, calls
PairsOf(markers) ==
    [i \in 1..Len(markers) |-> <<<<markers[i][2]>>, JsonLoads(ArgsOf(markers[i])).v>>]
OnlyProse(text) == SelectSeq(text, LAMBDA x : x = Prose)

\* C16: _execute_tool_calls gives one entry per request of its input, in the
\* order of the input, and every entry has a result or an error, not both
\* and not neither.
C16_OneEntryPerRequest ==
    orch.op = "_execute_tool_calls" =>
        /\ Len(orch.results) = Len(orch.tool_calls)
        /\ \A i \in 1..Len(orch.results) :
               Cardinality(orch.results[i].keys \cap {"result", "error"}) = 1
        /\ \A i \in 1..Len(orch.results) :
               ("result" \in orch.results[i].keys /\ orch.tool_calls[i].k \in {"function", "custom"})
                   => orch.results[i].tool = RemoveAll(orch.tool_calls[i].name, "tool.")

\* C17: structured calls take precedence in _process_response_with_tools.
\* With a non-empty tool_calls list only structured calls are executed (each
\* well-formed one, in order, when tools are attached), the returned content
\* is the formatted results and holds nothing of the model's own text;
\* markers are executed only when there is no structured call.
C17_StructuredCallsTakePrecedence ==
    orch.op = "_process_response_with_tools" =>
        IF orch.has_tool_calls /\ orch.tool_calls # <<>>
        THEN /\ \A i \in 1..Len(orch.calls) : orch.calls[i].via = "structured"
             /\ mcp_tools.present =>
                    LET wf == SelectSeq(orch.tool_calls, LAMBDA c : c.k \in {"function", "custom"})
                    IN  [i \in 1..Len(orch.calls) |-> orch.calls[i].tool_name]
                            = [i \in 1..Len(wf) |-> RemoveAll(wf[i].name, "tool.")]
             /\ ~orch.out.exc
             /\ orch.out.v = FormatToolResults(orch.results)
             /\ Range(orch.out.v) \cap (MarkerTokens \cup {Prose}) = {}
        ELSE \A i \in 1..Len(orch.calls) : orch.calls[i].via = "inline"

\* a response with structured calls and a text that holds a marker was
\* processed with tools attached, and a tool was called
C17_Witness ==
    /\ orch.op = "_process_response_with_tools"
    /\ mcp_tools.present
    /\ orch.has_tool_calls
    /\ orch.tool_calls # <<>>
    /\ \E i \in 1..Len(orch.segs) : IsMarker(orch.segs[i]) /\ ValidArgs(orch.segs[i])
    /\ orch.calls # <<>>

\* C18: with tools attached, every marker [TOOL:name:jsonArgs] of the text is
\* executed, in order, the prose is kept, and nothing of the marker text is
\* left in the output.  (The markers here name tool x, which returns plain
\* text, and their arguments are valid JSON.)
C18_EveryMarkerReplaced ==
    (/\ Inline
     /\ mcp_tools.env["x"] = "ok"
     /\ \A i \in 1..Len(orch.segs) :
            IsMarker(orch.segs[i]) => ValidArgs(orch.segs[i]) /\ orch.segs[i][2] = "x")
        => /\ ~orch.out.exc
           /\ CalledPairs = PairsOf(MarkersOf(orch.segs))
           /\ OnlyProse(orch.out.v) = OnlyProse(orch.text)
           /\ Range(orch.out.v) \cap MarkerTokens = {}

\* the text that replaces a marker of tool x executed as the k-th call
ResultOfCall(k) == <<Wrench, "x", ": ">> \o ToolResult(<<"x">>, k).v
\* the number of markers among the first i segments
MarkersUpTo(i) == Len(MarkersOf(SubSeq(orch.segs, 1, i)))

\* C37: _process_tool_calls_async executes as many tools as the text has
\* marker occurrences, and every occurrence is replaced by the result of its
\* own execution, also when the same marker text occurs more than once.
\* (The markers here name tool x with empty or {} arguments, and x answers.)
C37_EachOccurrenceOwnResult ==
    (/\ Inline
     /\ mcp_tools.env["x"] \in {"ok", "nth"}
     /\ \A i \in 1..Len(orch.segs) :
            IsMarker(orch.segs[i]) =>
                /\ orch.segs[i][2] = "x"
                /\ ArgsOf(orch.segs[i]) \in { <<>>, <<"{}">> })
        => /\ ~orch.out.exc
           /\ Len(orch.calls) = Len(MarkersOf(orch.segs))
           /\ orch.out.v = Flatten([i \in 1..Len(orch.segs) |->
                                      IF IsMarker(orch.segs[i])
                                      THEN ResultOfCall(MarkersUpTo(i))
                                      ELSE orch.segs[i]])

\* C19: a marker whose arguments are no valid JSON is replaced by an error
\* text and no tool is called for it; the pass goes on, so the valid markers
\* of the text are executed and replaced.  (The valid markers here are plain:
\* tool x, arguments without a bracket, tools that return plain text.)
C19_BadJsonDoesNotAbort ==
    (/\ Inline
     /\ \E i \in 1..Len(orch.segs) : IsMarker(orch.segs[i]) /\ ~ValidArgs(orch.segs[i])
     /\ \A i \in 1..Len(orch.segs) :
            IsMarker(orch.segs[i]) =>
                /\ ArgsOf(orch.segs[i]) \in { <<>>, <<"{}">>, <<"{bad">> }
                /\ ValidArgs(orch.segs[i]) => orch.segs[i][2] = "x"
     /\ mcp_tools.env["x"] = "ok")
        => /\ ~orch.out.exc
           /\ CalledPairs = PairsOf(SelectSeq(MarkersOf(orch.segs), ValidArgs))
           /\ OnlyProse(orch.out.v) = OnlyProse(orch.text)
           /\ Range(orch.out.v) \cap MarkerTokens = {}
           /\ Cross \in Range(orch.out.v)

(***************************************************************************)
(* Properties of the monolithic client, checked under SpecNs.              *)
(***************************************************************************)
\* C9: two catalog entries of different servers never have the same
\* namespaced name, and a call by the namespaced name of an entry is
\* dispatched to the server of the tool that was meant.
C9_NoCrossServerCollision ==
    /\ \A i, j \in 1..Len(cl_available_tools) :
           cl_available_tools[i].server # cl_available_tools[j].server
               => cl_available_tools[i].name # cl_available_tools[j].name
    /\ cl_call # NoCall =>
           /\ cl_call.resolved # 0
           /\ cl_available_tools[cl_call.resolved].server
                  = cl_available_tools[cl_call.intended].server
           /\ cl_available_tools[cl_call.resolved].local
                  = cl_available_tools[cl_call.intended].local

(***************************************************************************)
(* The subprocess operations of the monolithic client (src/client.py):     *)
(* ToolDiscovery._discover_subprocess_tools (231-339) and                  *)
(* MCPTools._call_subprocess_tool (1028-1161).  Each spawns a process of   *)
(* its own; one operation is one step, its inputs the lines the process    *)
(* answers with.  (The name sent in tools/call is derived from the catalog *)
(* entry; the catalog names are the subject of SpecNs.)                    *)
(***************************************************************************)
\* a server's entry in config.json: cwd and env are optional
SubConfigs ==
    [command : {"srv"}]
        \cup [command : {"srv"}, cwd : {"/srv"}]
        \cup [command : {"srv"}, env : {[PATH |-> "/opt/bin"]}]
        \cup [command : {"srv"}, cwd : {"/srv"}, env : {[PATH |-> "/opt/bin"]}]

\* client.py:148-157: the registry entry made from the configuration
ClServerInfo(server_config) ==
    [type |-> "subprocess", config |-> server_config, command |-> server_config.command,
     args |-> <<>>]

\* dict.get(key, default)
DictGet(d, key, default) == IF key \in DOMAIN d THEN d[key] ELSE default

\* full_env = dict(os.environ); full_env.update(env)
Updated(base, over) ==
    [v \in DOMAIN base \cup DOMAIN over |-> IF v \in DOMAIN over THEN over[v] ELSE base[v]]

\* lines 235-236 and 245-255 (1033-1034 and 1052-1062): the process spawned
\* for the registry entry, its stdin open and nobody waiting for it
SubSpawn(server_info) ==
    [cwd |-> DictGet(server_info, "cwd", "."),
     env |-> Updated(OsEnviron, DictGet(server_info, "env", <<>>)),
     stdin_closed |-> FALSE, waited |-> FALSE]

\* process.stdin.close(); await process.wait()
CleanedUp(process) == [process EXCEPT !.stdin_closed = TRUE, !.waited = TRUE]

\* lines 314-322: the names of the tools, raising at an element that is no object
RECURSIVE ClToolNames(_)
ClToolNames(items) ==
    IF items = <<>> THEN [exc |-> FALSE, v |-> <<>>]
    ELSE IF ~IsDict(Head(items)) THEN [exc |-> TRUE, v |-> <<>>]
    ELSE LET rest == ClToolNames(Tail(items))
             name == IF Head(items).v = Absent THEN <<>> ELSE Head(items).v.v
         IN  IF rest.exc THEN rest ELSE [exc |-> FALSE, v |-> <<name>> \o rest.v]

\* _discover_subprocess_tools after the spawn: whether the process is cleaned
\* up before the return, whether the tools/list answer was read, the tools
DiscoverOutcome(l1, l2) ==
    LET stop == [cleaned |-> TRUE, read_list |-> FALSE, tools |-> <<>>]
        none == [cleaned |-> TRUE, read_list |-> TRUE, tools |-> <<>>]
        lost == [cleaned |-> FALSE, read_list |-> TRUE, tools |-> <<>>]
    IN  CASE l1.k \in {"eof", "bad"} -> stop
          [] HasResult(l1) # "T" -> stop
          [] l2.k \in {"eof", "bad"} -> none
          [] l2.result = Absent -> none
          [] ~IsDict(l2.result) -> lost
          [] l2.result.v = Absent -> none
          [] l2.result.v.t # "list" -> lost
          [] ClToolNames(l2.result.v.v).exc -> lost
          [] OTHER -> [cleaned |-> TRUE, read_list |-> TRUE,
                       tools |-> ClToolNames(l2.result.v.v).v]

\* str(x) of a decoded JSON value
StrOf(x) ==
    CASE x.t = "num" -> <<"5">>
      [] x.t = "null" -> <<"None">>
      [] x.t = "str" -> x.v
      [] x.t = "dict" /\ x.v = Absent -> <<"{}">>
      [] x.t = "list" /\ x.v = <<>> -> <<"[]">>
      [] OTHER -> <<"repr of ", x.t>>

\* what _call_subprocess_tool returns: a result text (ok) or a message that
\* the call failed
Gives(value) == [ok |-> TRUE, value |-> value]
Fails(msg) == [ok |-> FALSE, value |-> PyStr(<<msg>>)]

\* lines 1122-1150 with the except clauses of 1158-1161: the value returned
\* for the line read after tools/call
ClHandleCallLine(l) ==
    CASE l.k = "eof" -> Fails("No response from MCP server")
      [] l.k = "bad" -> Fails("Error parsing MCP response: ")
      [] l.error # Absent -> Fails("Tool execution error: ")
      [] l.result = Absent -> Fails("No result returned from tool")
      [] ~IsDict(l.result) -> Gives(PyStr(StrOf(l.result)))
      [] l.result.v = Absent -> Gives(PyStr(StrOf(l.result)))
      [] l.result.v.t # "list" \/ l.result.v.v = <<>> -> Gives(PyStr(StrOf(l.result.v)))
      [] ~IsDict(l.result.v.v[1]) -> Fails("Error calling subprocess tool: ")
      [] l.result.v.v[1].v = Absent -> Gives(PyStr(StrOf(l.result)))
      [] l.result.v.v[1].v = JNull -> Gives(None)
      [] OTHER -> Gives(PyStr(l.result.v.v[1].v.v))

\* _call_subprocess_tool after the spawn: the value returned, and whether the
\* tools/call answer was read
CallOutcome(l1, l2) ==
    CASE l1.k = "eof" -> [read_call |-> FALSE, out |-> Fails("Failed to initialize MCP server")]
      [] l1.k = "bad" -> [read_call |-> FALSE, out |-> Fails("Error parsing MCP response: ")]
      [] l1.error # Absent ->
             [read_call |-> FALSE, out |-> Fails("MCP server initialization error: ")]
      [] OTHER -> [read_call |-> TRUE, out |-> ClHandleCallLine(l2)]

SubDiscover(l1, l2) ==
    /\ cl_sub.op = "none"
    /\ LET y == DiscoverOutcome(l1, l2)
           process == SubSpawn(cl_sub.server_info)
       IN  cl_sub' = [cl_sub EXCEPT
                        !.op = "discover",
                        !.spawned = <<IF y.cleaned THEN CleanedUp(process) ELSE process>>,
                        !.init_line = l1,
                        !.line = IF y.read_list THEN l2 ELSE Unread,
                        !.out = Gives(PyStr(Flatten(y.tools)))]
    /\ UNCHANGED <<cl_config, cl_servers, cl_available_tools, cl_call, streamVars, mcpVars,
                   orchVars, facadeVars>>

\* the finally clause of lines 1152-1156 cleans up on every path
SubCall(l1, l2) ==
    /\ cl_sub.op = "none"
    /\ LET y == CallOutcome(l1, l2)
       IN  cl_sub' = [cl_sub EXCEPT
                        !.op = "call",
                        !.spawned = <<CleanedUp(SubSpawn(cl_sub.server_info))>>,
                        !.init_line = l1,
                        !.line = IF y.read_call THEN l2 ELSE Unread,
                        !.out = y.out]
    /\ UNCHANGED <<cl_config, cl_servers, cl_available_tools, cl_call, streamVars, mcpVars,
                   orchVars, facadeVars>>

\* the two implementations of the handling of a tools/call answer, applied
\* to the same line: client.py:1122-1150 and tool_executor.py:97-115
HandleCallLine(l) ==
    /\ cl_sub.op = "none"
    /\ cl_sub' = [cl_sub EXCEPT !.op = "handle", !.line = l,
                                !.out = ClHandleCallLine(l), !.modular = CallResult(l)]
    /\ UNCHANGED <<cl_config, cl_servers, cl_available_tools, cl_call, streamVars, mcpVars,
                   orchVars, facadeVars>>

SubInit ==
    /\ cl_config = <<>>
    /\ cl_servers = <<>>
    /\ cl_available_tools = <<>>
    /\ cl_call = NoCall
    /\ cl_sub \in { [NoSub EXCEPT !.server_info = ClServerInfo(c)] : c \in SubConfigs }

SubNext ==
    \/ \E l1 \in InitLines, l2 \in ListLines : SubDiscover(l1, l2)
    \/ \E l1 \in InitLines, l2 \in CallLines : SubCall(l1, l2)
    \/ \E l \in CallLines : HandleCallLine(l)

InitSub == SubInit /\ StreamFrozen /\ McpIdle /\ OrchIdle /\ FacadeIdle
SpecSub == InitSub /\ [][SubNext]_vars

(***************************************************************************)
(* ToolExecutor._call_remote_tool, lines 49-71: one call, its inputs the   *)
(* configured url, the catalog name of the tool and what the HTTP exchange *)
(* with the execute endpoint does.                                         *)
(***************************************************************************)
RemoteServerPrefix == <<"remote_server", "_">>
\* str.replace("remote_server_", ""): every occurrence goes, left to right
RECURSIVE StripRemotePrefix(_)
StripRemotePrefix(name) ==
    IF Len(name) < 2 THEN name
    ELSE IF SubSeq(name, 1, 2) = RemoteServerPrefix
         THEN StripRemotePrefix(SubSeq(name, 3, Len(name)))
         ELSE <<Head(name)>> \o StripRemotePrefix(Tail(name))

BaseUrls == { <<>>, <<"http://host">> }
RemoteToolNames == { RemoteServerPrefix \o <<"foo">>, <<"foo">> }
Statuses == {200, 201, 204, 301, 404, 500}
\* the body of the answer: a JSON object with a result member, one without,
\* a JSON list, and a body that is no JSON
Bodies == {"result", "no_result", "list", "not_json"}
\* the exchange: the connection is refused or breaks, or an answer comes
Exchanges ==
    [k : {"refused", "reset"}, status : {0}, body : {"none"}]
        \cup [k : {"response"}, status : Statuses, body : Bodies]

\* the success test, taking every status below 400 for a success
BelowError(status) == status < 400
\* if response.status == 200
IsOk(status) == status = 200

\* what the call returns or raises
RemoteResult(base_url, http) ==
    IF base_url = <<>> THEN Return(Failure("No URL configured for remote server"))
    ELSE IF http.k # "response"
         THEN Return(PyStr(<<Cross, "Error calling remote tool: ", http.k>>))
    ELSE IF IsOk(http.status)
         THEN CASE http.body = "result" -> Return(PyStr(<<"remote result">>))
                [] http.body = "no_result" -> Return(PyStr(<<"No result">>))
                [] OTHER -> Return(PyStr(<<Cross, "Error calling remote tool: ", http.body>>))
    ELSE Return(PyStr(<<Cross, "Remote tool call failed with status ", http.status>>))

CallRemoteTool ==
    /\ remote.pc = "called"
    /\ remote' = [remote EXCEPT
                    !.pc = "returned",
                    !.payload = IF remote.base_url = <<>> THEN <<>>
                                ELSE StripRemotePrefix(remote.tool_name),
                    !.result = RemoteResult(remote.base_url, remote.http)]
    /\ UNCHANGED <<fc_config, fc_servers, fc_spawned, fc_available_tools, fc_pc, fc_out,
                   streamVars, mcpVars, clVars, orchVars>>

RemoteInit ==
    /\ fc_config = <<>>
    /\ fc_servers = <<>>
    /\ fc_spawned = <<>>
    /\ fc_available_tools = <<>>
    /\ fc_pc = "constructed"
    /\ fc_out = NoOut
    /\ remote \in [pc : {"called"}, base_url : BaseUrls, tool_name : RemoteToolNames,
                   payload : {<<>>}, http : Exchanges, result : {Return(None)}]

RemoteNext == CallRemoteTool

InitRemote == RemoteInit /\ StreamFrozen /\ McpIdle /\ ClIdle /\ OrchIdle
SpecRemote == InitRemote /\ [][RemoteNext]_vars

(***************************************************************************)
(* Properties of the package as a whole, checked under SpecFacade.         *)
(***************************************************************************)
\* the configuration of the server called name
ConfigOf(name) == fc_config[CHOOSE k \in 1..Len(fc_config) : fc_config[k].name = name]

C24_MergedEnvironment ==
    \A i \in 1..Len(fc_spawned) :
        LET declared == ConfigOf(fc_spawned[i].name).env
            child == fc_spawned[i].env
        IN  \A v \in EnvVars :
                /\ v \in DOMAIN child
                /\ child[v] = IF declared # None /\ v \in DOMAIN declared
                              THEN declared[v] ELSE OsEnviron[v]

\* C25: when one server declares the same local tool name more than once,
\* the catalog keeps one tool of that name only, so no two catalog entries
\* discovered from one server have the same name.
C25_FirstOfDuplicatesKept ==
    fc_pc = "initialized" =>
        \A i, j \in 1..Len(fc_available_tools) :
            (i # j /\ fc_available_tools[i].process = fc_available_tools[j].process)
                => fc_available_tools[i].name # fc_available_tools[j].name

\* C26: whatever the catalog, the empty one included, the description that
\* get_tools_description returns ends in the instruction line.
C26_DescriptionEndsInInstruction ==
    fc_out.op = "desc" => Last(fc_out.v) = Instruction

\* the lines of the description that open a group, and those that list a tool
GroupLineAt(k) == fc_out.v[k] # <<>> /\ Head(fc_out.v[k]) = Antenna
ToolLineAt(k) == fc_out.v[k] # <<>> /\ Head(fc_out.v[k]) = Dash
ParametersLineAt(k) ==
    k <= Len(fc_out.v) /\ fc_out.v[k] # <<>> /\ Head(fc_out.v[k]) = Parameters
\* the group line above line k
GroupAbove(k) ==
    fc_out.v[CHOOSE g \in 1..k : GroupLineAt(g) /\ \A h \in (g + 1)..k : ~GroupLineAt(h)]

\* C27: the description lists every catalog tool exactly once, under the
\* group of the server it was discovered from, with its name, description
\* and parameters, a parameter marked (required) exactly when its schema
\* entry says so.
C27_GroupedByDiscoveringServer ==
    (fc_out.op = "desc" /\ fc_available_tools # <<>>) =>
        /\ Cardinality({ k \in 1..Len(fc_out.v) : ToolLineAt(k) }) = Len(fc_available_tools)
        /\ \A i \in 1..Len(fc_available_tools) :
               LET tool == fc_available_tools[i]
               IN  \E k \in 1..Len(fc_out.v) :
                       /\ fc_out.v[k] = <<Dash>> \o tool.name \o <<": ", tool.description>>
                       /\ \E g \in 1..k : GroupLineAt(g)
                       /\ GroupAbove(k) = <<Antenna>> \o ConfigOf(tool.process).description \o <<":">>
                       /\ ParametersLineAt(k + 1) <=> tool.parameters # <<>>
                       /\ \A n \in 1..Len(tool.parameters) :
                              /\ tool.parameters[n].name \in Range(fc_out.v[k + 1])
                              /\ " (required)" \in Range(fc_out.v[k + 1])
                                     <=> tool.parameters[n].required

(***************************************************************************)
(* Properties of the remote tool call, checked under SpecRemote.           *)
(***************************************************************************)
\* the exchange failed: no connection, or an answer whose status is not 2xx
ExchangeFailed(http) ==
    \/ http.k # "response"
    \/ http.status < 200
    \/ http.status > 299

\* C29: _call_remote_tool turns every status of the execute endpoint that
\* is not 2xx, and every connection failure, into a failure string: it does
\* not raise and does not return such an answer as a success.
C29_RemoteFailureIsFailureString ==
    (remote.pc = "returned" /\ remote.base_url # <<>> /\ ExchangeFailed(remote.http)) =>
        /\ ~remote.result.exc
        /\ IsFailure(remote.result.value)

\* an answer 404 with a body that holds a result has been turned into a failure
C29_Witness ==
    /\ remote.pc = "returned"
    /\ remote.base_url # <<>>
    /\ remote.http.k = "response"
    /\ remote.http.status = 404
    /\ remote.http.body = "result"
    /\ IsFailure(remote.result.value)

(***************************************************************************)
(* Properties of the subprocess operations of client.py, checked under     *)
(* SpecSub.                                                                *)
(***************************************************************************)
\* C36: every process that discovery or a tool call of client.py spawned has
\* its stdin closed and has been waited for when the operation returns, on
\* every path.
C36_ChildClosedAndWaited ==
    cl_sub.op \in {"discover", "call"} =>
        \A i \in 1..Len(cl_sub.spawned) :
            cl_sub.spawned[i].stdin_closed /\ cl_sub.spawned[i].waited

\* C39: the process that discovery or a tool call of client.py spawns runs in
\* the working directory the server's configuration declares, and with the
\* declared environment laid over the inherited one.
C39_DeclaredCwdAndEnvApplied ==
    \A i \in 1..Len(cl_sub.spawned) :
        LET declared == cl_sub.server_info.config
            process == cl_sub.spawned[i]
        IN  /\ "cwd" \in DOMAIN declared => process.cwd = declared.cwd
            /\ \A v \in EnvVars :
                   /\ v \in DOMAIN process.env
                   /\ process.env[v] = IF "env" \in DOMAIN declared /\ v \in DOMAIN declared.env
                                       THEN declared.env[v] ELSE OsEnviron[v]

\* C40: for every line read after tools/call the two implementations agree:
\* both give a result or both a failure, and when they give a result it is
\* the same text.
C40_ResultHandlingAgrees ==
    cl_sub.op = "handle" =>
        /\ cl_sub.out.ok <=> ~IsFailure(cl_sub.modular)
        /\ cl_sub.out.ok => cl_sub.out.value = cl_sub.modular

====
